---- MODULE Spec2Model ----
(***************************************************************************)
(* Transfer relay and escrow claim ledger of havenvaults.                  *)
(*                                                                         *)
(* State: the EmailClaim collection, the user records, the token ledger    *)
(* (balances and holding accounts), the transactions handed to the         *)
(* network, and the HTTP requests in flight, one step per await.           *)
(*                                                                         *)
(* Amounts entered by a client ("Ui" amounts, JS numbers) are kept in      *)
(* tenths of a minor unit, so that Math.round(ui * 1_000_000) is a real    *)
(* rounding.  Times are milliseconds.                                      *)
(***************************************************************************)
EXTENDS Integers, Sequences, FiniteSets, TLC

(* ------------------------------ bounds --------------------------------- *)

MaxCreates == 1
MaxRequests == 3
MaxRelays == 1
MaxTicks == 1
MaxSweeps == 1
InitBal == 100000
EscrowFloat == 50000

Slots == {1, 2}

(* --------------------------- program constants ------------------------- *)

FEE_UI == 200000
MAX_PER_TX == 8
TOKEN_TTL_MS == 604800000
MS_PER_SEC == 1000

HAVEN_PUBKEY == "haven"
ESCROW_PUBKEY == HAVEN_PUBKEY
TREASURY_OWNER == "treasury"

Users == {"alice", "bob"}
NoWallet == "none"
EmailOf(u) == IF u = "alice" THEN "alice@x.com" ELSE "bob@x.com"
PrivyWallet(u) == IF u = "alice" THEN "A" ELSE "B"
\* the optional second wallet of a user record
SavingsWallet(u) == IF u = "alice" THEN "SA" ELSE NoWallet
Owners == {"A", "B", "SA", HAVEN_PUBKEY, TREASURY_OWNER}

RawEmails == {"Bob@X.com"}
AmountsUi == {100000, 200004, 300000}
ClaimAmountsUi == {300000}
TickSteps == {TOKEN_TTL_MS + 500}

(* ------------------------------- helpers ------------------------------- *)

Min(a, b) == IF a < b THEN a ELSE b

toLowerCase(s) == IF s = "Bob@X.com" THEN "bob@x.com" ELSE s

normEmail(s) == toLowerCase(s)

\* Math.round(ui * 1_000_000) for a non-negative amount
toUnits(ui) == (2 * ui + 10) \div 20

RECURSIVE SumSeq(_)
SumSeq(s) == IF s = <<>> THEN 0 ELSE Head(s) + SumSeq(Tail(s))

SeqToSet(s) == {s[i] : i \in 1..Len(s)}

(* ------------------------- instructions and chain ---------------------- *)

Ix(op, src, dst, amt, auth, claim) ==
  [op |-> op, src |-> src, dst |-> dst, amt |-> amt, auth |-> auth, claim |-> claim]

createAssociatedTokenAccountIdempotentInstruction(payer, owner) ==
  Ix("ensure", payer, owner, 0, payer, 0)

createTransferCheckedInstruction(src, dst, auth, amt, claim) ==
  Ix("xfer", src, dst, amt, auth, claim)

NoTx == [by |-> 0, payer |-> "", ixs |-> <<>>, signed |-> {}, state |-> "none"]

RequiredSigners(tx) ==
  {tx.payer} \cup {tx.ixs[i].auth : i \in 1..Len(tx.ixs)}

\* the network runs the instructions of one transaction in order, all or nothing
RECURSIVE Exec(_, _, _)
Exec(ixs, b, a) ==
  IF ixs = <<>> THEN [ok |-> TRUE, bal |-> b, ata |-> a]
  ELSE LET ix == Head(ixs) IN
       IF ix.op = "ensure"
       THEN Exec(Tail(ixs), b, a \cup {ix.dst})
       ELSE IF ix.src \in a /\ ix.dst \in a /\ ix.amt >= 0 /\ b[ix.src] >= ix.amt
            THEN Exec(Tail(ixs),
                      [o \in Owners |->
                         b[o] - (IF o = ix.src THEN ix.amt ELSE 0)
                              + (IF o = ix.dst THEN ix.amt ELSE 0)],
                      a)
            ELSE [ok |-> FALSE, bal |-> b, ata |-> a]

(* ------------------------------ claim token ---------------------------- *)

\* a field the token payload does not carry
Absent == 0 - 1

\* a decoded token payload: the current names claimId, recipientEmail,
\* expiresAt, the older names cid, eml, and the JWT exp; a missing field is
\* 0, "" or Absent
RawToken(claimId, cid, recipientEmail, eml, expiresAt, exp) ==
  [claimId |-> claimId, cid |-> cid, recipientEmail |-> recipientEmail,
   eml |-> eml, expiresAt |-> expiresAt, exp |-> exp]

NoToken == RawToken(0, 0, "", "", 0, 0)

signClaimToken(claimId, recipientEmail, expiresAt) ==
  RawToken(claimId, 0, toLowerCase(recipientEmail), "", expiresAt,
           expiresAt \div MS_PER_SEC)

\* the same reading the current field names only
verifyClaimTokenCurrentNames(token, clock) ==
  IF token.exp # Absent /\ clock \div MS_PER_SEC >= token.exp
  THEN NoToken
  ELSE IF token.claimId # 0 /\ token.recipientEmail # "" /\ token.expiresAt # 0
       THEN RawToken(token.claimId, 0, toLowerCase(token.recipientEmail), "",
                     token.expiresAt, token.exp)
       ELSE NoToken

\* jwt.verify throws once the clock (in seconds) has reached exp; then
\* claimId ?? cid, recipientEmail ?? eml lowercased, expiresAt or exp * 1000
verifyClaimToken(token, clock) ==
  IF token.exp # Absent /\ clock \div MS_PER_SEC >= token.exp
  THEN NoToken
  ELSE LET claimId == IF token.claimId # 0 THEN token.claimId ELSE token.cid
           recipientEmail == toLowerCase(IF token.recipientEmail # ""
                                         THEN token.recipientEmail ELSE token.eml)
           expiresAt == IF token.expiresAt # 0 THEN token.expiresAt
                        ELSE IF token.exp # Absent THEN token.exp * MS_PER_SEC
                        ELSE 0
       IN IF claimId # 0 /\ recipientEmail # "" /\ expiresAt # 0
          THEN RawToken(claimId, 0, recipientEmail, "", expiresAt, token.exp)
          ELSE NoToken

(* -------------------------------- state -------------------------------- *)

VARIABLES now, ticks, users, claims, bal, ata, txs, req, started, creates, matched, mailed

vars == <<now, ticks, users, claims, bal, ata, txs, req, started, creates, matched, mailed>>

NoResp == [status |-> 0, error |-> "", count |-> 0, sigs |-> <<>>, claimId |-> 0]

Idle ==
  [kind |-> "idle", pc |-> "idle", serial |-> 0, user |-> "none",
   token |-> NoToken, payload |-> NoToken, tokenId |-> 0, ids |-> {}, email |-> "",
   key |-> "",
   fromOwner |-> "",
   toOwner |-> "", amountUi |-> 0, privyToken |-> FALSE, tx |-> NoTx,
   pending |-> <<>>, idx |-> 0, sigs |-> <<>>, io |-> {}, built |-> 0,
   resp |-> NoResp]

Resp(status, error, count, sigs, claimId) ==
  [status |-> status, error |-> error, count |-> count, sigs |-> sigs,
   claimId |-> claimId]

Init ==
  /\ now = 0
  /\ ticks = 0
  /\ \E w \in {NoWallet, PrivyWallet("bob")} :
       users = [u \in Users |-> IF u = "alice" THEN PrivyWallet(u) ELSE w]
  /\ claims = <<>>
  /\ \E float \in {0, EscrowFloat} :
       bal = [o \in Owners |-> IF o = "A" THEN InitBal
                                ELSE IF o = ESCROW_PUBKEY THEN float ELSE 0]
  /\ ata = {"A", ESCROW_PUBKEY}
  /\ txs = <<>>
  /\ req = [r \in Slots |-> Idle]
  /\ started = 0
  /\ creates = 0
  /\ matched = {}
  /\ mailed = {}

(* ------------------------------ EmailClaim ----------------------------- *)

ClaimIds == 1..Len(claims)

NewClaim(id, sender, fromOwner, email, amountUnits, escrowSig, expires, created) ==
  [id |-> id, senderUserId |-> sender, senderFromOwner |-> fromOwner,
   recipientEmail |-> toLowerCase(email), amountUnits |-> amountUnits,
   escrowSignature |-> escrowSig, status |-> "pending",
   claimedByUserId |-> "none", claimSignature |-> 0, claimedAt |-> 0,
   tokenId |-> id, tokenExpiresAt |-> expires, createdAt |-> created]

\* .sort({ createdAt: 1 }); rows with equal createdAt keep insertion order
RECURSIVE SortByCreatedAt(_)
RECURSIVE SortNewestFirst(_)
SortNewestFirst(S) ==
  IF S = {} THEN <<>>
  ELSE LET first == CHOOSE i \in S : \A j \in S :
                      \/ claims[i].createdAt > claims[j].createdAt
                      \/ claims[i].createdAt = claims[j].createdAt /\ i >= j
       IN <<first>> \o SortNewestFirst(S \ {first})

SortByCreatedAt(S) ==
  IF S = {} THEN <<>>
  ELSE LET first == CHOOSE i \in S : \A j \in S :
                      \/ claims[i].createdAt < claims[j].createdAt
                      \/ claims[i].createdAt = claims[j].createdAt /\ i <= j
       IN <<first>> \o SortByCreatedAt(S \ {first})

\* the same query without the expiry bound
FindPendingAnyExpiry(email, ids) ==
  SortByCreatedAt({i \in ClaimIds :
     /\ claims[i].recipientEmail = email
     /\ claims[i].status = "pending"
     /\ (ids # {} => i \in ids)})

\* EmailClaim.find({ recipientEmail, status: "pending", tokenExpiresAt: { $gt: now } [, _id: { $in }] })
FindPendingForRecipient(email, ids) ==
  SortByCreatedAt({i \in ClaimIds :
     /\ claims[i].recipientEmail = email
     /\ claims[i].status = "pending"
     /\ claims[i].tokenExpiresAt > now
     /\ (ids # {} => i \in ids)})

FindPendingAnySender(sender, ids) ==
  SortByCreatedAt({i \in ClaimIds :
     /\ claims[i].status = "pending"
     /\ (ids # {} => i \in ids)})

\* EmailClaim.find({ senderUserId, status: "pending" [, _id: { $in }] })
FindPendingForSender(sender, ids) ==
  SortByCreatedAt({i \in ClaimIds :
     /\ claims[i].senderUserId = sender
     /\ claims[i].status = "pending"
     /\ (ids # {} => i \in ids)})

Reverse(s) == [k \in 1..Len(s) |-> s[Len(s) + 1 - k]]

\* POST /api/transfers/email/pending/list: pending, non-expired, oldest first
PendingList(email) ==
  SortByCreatedAt({i \in ClaimIds :
     /\ claims[i].recipientEmail = email
     /\ claims[i].status = "pending"
     /\ claims[i].tokenExpiresAt > now})

\* POST /api/transfers/email/pending/summary: $match, then $group count and sum
PendingSummary(email) ==
  LET hit == {i \in ClaimIds :
                /\ claims[i].recipientEmail = email
                /\ claims[i].status = "pending"
                /\ claims[i].tokenExpiresAt > now}
      rows == SortByCreatedAt(hit)
  IN [ids |-> hit, count |-> Cardinality(hit),
      totalUnits |-> SumSeq([k \in 1..Len(rows) |-> claims[rows[k]].amountUnits])]

\* GET /api/user/me: pendingEmailClaims of the user's e-mail, newest first
ProfilePending(email) ==
  IF email = "" THEN <<>>
  ELSE Reverse(SortByCreatedAt({i \in ClaimIds :
          /\ claims[i].recipientEmail = email
          /\ claims[i].status = "pending"
          /\ claims[i].tokenExpiresAt > now}))

\* GET sent list: the sender's pending, non-expired claims, newest first
SentList(sender) ==
  Reverse(SortByCreatedAt({i \in ClaimIds :
     /\ claims[i].senderUserId = sender
     /\ claims[i].status = "pending"
     /\ claims[i].tokenExpiresAt > now}))

\* EmailClaim.findOne({ tokenId })
FindByTokenId(tokenId) == {i \in ClaimIds : claims[i].tokenId = tokenId}

\* the token that create e-mailed for claim row i (for i in mailed)
EmailedToken(i) ==
  signClaimToken(claims[i].tokenId, claims[i].recipientEmail, claims[i].tokenExpiresAt)

(* ------------------------------- requests ------------------------------ *)

Free(r) ==
  /\ req[r].pc \in {"idle", "done"}
  /\ \A q \in Slots : q < r => req[q].pc \notin {"idle", "done"}

\* request budgets of a behaviour
SettleBudget == started < MaxRequests
RelayBudget == started < MaxRelays
CreateBudget == creates < MaxCreates

Begin(kind, pc, user) ==
  [Idle EXCEPT !.kind = kind, !.pc = pc, !.serial = started + 1, !.user = user]

\* the response is sent and the handler's locals are dropped; what the
\* response and the request log show is kept
Finish(cur, resp) ==
  [Idle EXCEPT !.kind = cur.kind, !.pc = "done", !.serial = cur.serial,
               !.user = cur.user, !.tokenId = cur.tokenId, !.ids = cur.ids,
               !.email = cur.email, !.key = cur.key,
               !.amountUi = cur.amountUi,
               !.pending = cur.pending, !.io = cur.io, !.built = cur.built,
               !.resp = resp]

NumChunksFirstOnly(pending) == IF Len(pending) = 0 THEN 0 ELSE 1

NumChunks(pending) == (Len(pending) + MAX_PER_TX - 1) \div MAX_PER_TX

ChunkInclusiveEnd(pending, idx) ==
  SubSeq(pending, idx * MAX_PER_TX + 1, Min((idx + 1) * MAX_PER_TX + 1, Len(pending)))

\* pending.slice(i, i + MAX_PER_TX) for chunk number idx (from 0)
Chunk(pending, idx) ==
  SubSeq(pending, idx * MAX_PER_TX + 1, Min((idx + 1) * MAX_PER_TX, Len(pending)))

\* the same write without the status filter
UpdateManyUnfiltered(ids, status, by, sig, at) ==
  [i \in ClaimIds |->
     IF i \in ids
     THEN [claims[i] EXCEPT !.status = status,
                            !.claimedByUserId = IF status = "claimed" THEN by ELSE @,
                            !.claimSignature = IF status = "claimed" THEN sig ELSE @,
                            !.claimedAt = IF status = "claimed" THEN at ELSE @]
     ELSE claims[i]]

\* updateMany({ _id: { $in: ids }, status: "pending" }, { $set: ... })
UpdateManyPending(ids, status, by, sig, at) ==
  [i \in ClaimIds |->
     IF i \in ids /\ claims[i].status = "pending"
     THEN [claims[i] EXCEPT !.status = status,
                            !.claimedByUserId = IF status = "claimed" THEN by ELSE @,
                            !.claimSignature = IF status = "claimed" THEN sig ELSE @,
                            !.claimedAt = IF status = "claimed" THEN at ELSE @]
     ELSE claims[i]]

\* the signing client of the request with this serial, were one client
\* shared by every request
getPrivyShared(serial) == 0

\* getPrivy(): a new PrivyClient per call, named after the calling request
getPrivy(serial) == serial

\* request q has run privy.walletApi.updateAuthorizationKey(authorizationKey)
\* with its user's key and its handler has not returned yet
Switched(q) ==
  /\ req[q].kind \in {"relayB", "create"}
  /\ req[q].pc \in {"xfer_send", "xfer_confirm"}

\* the authorization key a client holds: 0 for the application key set by
\* getPrivy, otherwise the serial of the request that installed a user key
AuthorizationKey(client) ==
  LET installers == {q \in Slots : Switched(q) /\ getPrivy(req[q].serial) = client}
  IN IF installers = {} THEN 0
     ELSE req[CHOOSE q \in installers : TRUE].serial

\* privy.walletApi.solana.signAndSendTransaction on the request's client
SentTx(by, payer, ixs, signed) ==
  [by |-> by, payer |-> payer, ixs |-> ixs, signed |-> signed,
   key |-> AuthorizationKey(getPrivy(by)), state |-> "sent"]

(* ---- POST /api/transfers/email/claim (token, batched) ---- *)

TokenClaimStart(r, u, t) ==
  /\ Free(r)
  /\ SettleBudget
  /\ t \in ClaimIds
  /\ t \in mailed
  /\ LET payload == verifyClaimToken(EmailedToken(t), now)
         cur == [Begin("tokenClaim", "t_connect", u) EXCEPT !.tokenId = t]
     IN req' = [req EXCEPT ![r] =
                  IF payload.recipientEmail = "" \/ payload.expiresAt = 0
                  THEN Finish(cur, Resp(401, "InvalidToken", 0, <<>>, 0))
                  ELSE [cur EXCEPT !.token = payload]]
  /\ started' = started + 1
  /\ creates' = creates
  /\ UNCHANGED <<now, ticks, users, claims, bal, ata, txs, matched, mailed>>

TokenClaimGather(r, provisioned) ==
  /\ req[r].kind = "tokenClaim" /\ req[r].pc = "t_connect"
  /\ LET cur == [req[r] EXCEPT !.io = @ \cup {"db"}]
         payload == cur.token
         tokenEmail == toLowerCase(payload.recipientEmail)
         hit == FindByTokenId(payload.claimId)
     IN IF now > payload.expiresAt
        THEN /\ req' = [req EXCEPT ![r] =
                  IF payload.claimId # 0 /\ \E i \in hit : claims[i].status = "pending"
                  THEN [cur EXCEPT !.pc = "expire_save"]
                  ELSE Finish(cur, Resp(410, "ClaimExpired", 0, <<>>, 0))]
             /\ UNCHANGED users
        ELSE IF toLowerCase(EmailOf(cur.user)) # tokenEmail
        THEN /\ req' = [req EXCEPT ![r] = Finish(cur, Resp(403, "EmailMismatch", 0, <<>>, 0))]
             /\ UNCHANGED users
        ELSE IF users[cur.user] = NoWallet /\ ~provisioned
        THEN /\ req' = [req EXCEPT ![r] =
                  Finish([cur EXCEPT !.io = @ \cup {"signer"}],
                         Resp(500, "WalletProvisioning", 0, <<>>, 0))]
             /\ UNCHANGED users
        ELSE /\ users' = [users EXCEPT ![cur.user] =
                            IF @ = NoWallet THEN PrivyWallet(cur.user) ELSE @]
             /\ LET pending == FindPendingForRecipient(tokenEmail, {})
                IN req' = [req EXCEPT ![r] =
                     IF Len(pending) = 0
                     THEN Finish(cur, Resp(200, "", 0, <<>>, 0))
                     ELSE [cur EXCEPT !.pc = "c_send", !.pending = pending,
                                      !.token = NoToken,
                                      !.toOwner = users'[cur.user]]]
  /\ UNCHANGED <<now, ticks, claims, bal, ata, txs, started, creates, matched, mailed>>

\* maybe.status = "expired"; await maybe.save()
ExpireSave(r) ==
  /\ req[r].pc = "expire_save"
  /\ claims' = [i \in ClaimIds |->
                  IF claims[i].tokenId = req[r].token.claimId
                  THEN [claims[i] EXCEPT !.status = "expired"]
                  ELSE claims[i]]
  /\ req' = [req EXCEPT ![r] = Finish(req[r], Resp(410, "ClaimExpired", 0, <<>>, 0))]
  /\ UNCHANGED <<now, ticks, users, bal, ata, txs, started, creates, matched, mailed>>

(* ---- POST /api/transfers/user/claim (session, optional claimIds) ---- *)

UserClaimStartNoWalletCheck(r, u, ids) ==
  /\ Free(r)
  /\ SettleBudget
  /\ ids \subseteq ClaimIds
  /\ LET cur == [Begin("userClaim", "c_send", u) EXCEPT !.io = {"db"}]
         email == toLowerCase(EmailOf(u))
         pending == FindPendingForRecipient(email, ids)
     IN req' = [req EXCEPT ![r] =
                  IF Len(pending) = 0
                  THEN Finish(cur, Resp(200, "", 0, <<>>, 0))
                  ELSE [cur EXCEPT !.pending = pending, !.toOwner = users[u]]]
  /\ started' = started + 1
  /\ creates' = creates
  /\ UNCHANGED <<now, ticks, users, claims, bal, ata, txs, matched, mailed>>

UserClaimStart(r, u, ids) ==
  /\ Free(r)
  /\ SettleBudget
  /\ ids \subseteq ClaimIds
  /\ LET cur == [Begin("userClaim", "c_send", u) EXCEPT !.io = {"db"}]
         email == toLowerCase(EmailOf(u))
         pending == FindPendingForRecipient(email, ids)
     IN req' = [req EXCEPT ![r] =
                  IF users[u] = NoWallet
                  THEN Finish(cur, Resp(409, "NoDepositWallet", 0, <<>>, 0))
                  ELSE IF Len(pending) = 0
                  THEN Finish(cur, Resp(200, "", 0, <<>>, 0))
                  ELSE [cur EXCEPT !.pending = pending, !.toOwner = users[u]]]
  /\ started' = started + 1
  /\ creates' = creates
  /\ UNCHANGED <<now, ticks, users, claims, bal, ata, txs, matched, mailed>>

(* ---- the batch loop of both claim routes ---- *)

ClaimInstructionsWithFee(group, idx, recipientOwner) ==
  LET fee == toUnits(FEE_UI)
      transferIxs == [k \in 1..Len(group) |->
        createTransferCheckedInstruction(ESCROW_PUBKEY, recipientOwner, ESCROW_PUBKEY,
                                         claims[group[k]].amountUnits - fee, group[k])]
  IN IF idx = 0
     THEN << createAssociatedTokenAccountIdempotentInstruction(ESCROW_PUBKEY, ESCROW_PUBKEY),
             createAssociatedTokenAccountIdempotentInstruction(ESCROW_PUBKEY, recipientOwner) >>
          \o transferIxs
     ELSE transferIxs

ClaimInstructions(group, idx, recipientOwner) ==
  LET transferIxs == [k \in 1..Len(group) |->
        createTransferCheckedInstruction(ESCROW_PUBKEY, recipientOwner, ESCROW_PUBKEY,
                                         claims[group[k]].amountUnits, group[k])]
  IN IF idx = 0
     THEN << createAssociatedTokenAccountIdempotentInstruction(ESCROW_PUBKEY, ESCROW_PUBKEY),
             createAssociatedTokenAccountIdempotentInstruction(ESCROW_PUBKEY, recipientOwner) >>
          \o transferIxs
     ELSE transferIxs

\* getLatestBlockhash, compile, privy.walletApi.solana.signAndSendTransaction
ClaimSweepSend(r, sent) ==
  /\ req[r].kind \in {"tokenClaim", "userClaim"} /\ req[r].pc = "c_send"
  /\ LET cur == [req[r] EXCEPT !.io = @ \cup {"rpc", "signer"}]
         group == Chunk(cur.pending, cur.idx)
         instructions == ClaimInstructions(group, cur.idx, cur.toOwner)
     IN IF sent
        THEN /\ txs' = Append(txs, SentTx(cur.serial, ESCROW_PUBKEY, instructions, {HAVEN_PUBKEY}))
             /\ req' = [req EXCEPT ![r] =
                  [cur EXCEPT !.pc = "c_update", !.built = @ + Len(instructions),
                              !.io = @ \cup {"broadcast"},
                              !.sigs = Append(@, Len(txs) + 1)]]
        ELSE /\ txs' = txs
             /\ req' = [req EXCEPT ![r] = Finish(cur, Resp(500, "NetworkUnavailable", 0, <<>>, 0))]
  /\ UNCHANGED <<now, ticks, users, claims, bal, ata, started, creates, matched, mailed>>

ClaimSweepUpdateKeepsGoing(r, written) ==
  /\ req[r].kind \in {"tokenClaim", "userClaim"} /\ req[r].pc = "c_update"
  /\ LET cur == [req[r] EXCEPT !.io = @ \cup {"db"}]
         group == Chunk(cur.pending, cur.idx)
         ids == SeqToSet(group)
         hash == cur.sigs[Len(cur.sigs)]
     IN /\ claims' = IF written THEN UpdateManyPending(ids, "claimed", cur.user, hash, now)
                      ELSE claims
        /\ matched' = matched \cup
             {<<cur.serial, i>> : i \in {j \in ids : claims'[j] # claims[j]}}
        /\ req' = [req EXCEPT ![r] =
             IF cur.idx + 1 < NumChunks(cur.pending)
             THEN [cur EXCEPT !.pc = "c_send", !.idx = @ + 1]
             ELSE Finish([cur EXCEPT !.idx = @ + 1],
                         Resp(200, "", Len(cur.pending), cur.sigs, 0))]
  /\ UNCHANGED <<now, ticks, users, bal, ata, txs, started, creates, mailed>>

ClaimSweepUpdate(r, written) ==
  /\ req[r].kind \in {"tokenClaim", "userClaim"} /\ req[r].pc = "c_update"
  /\ LET cur == [req[r] EXCEPT !.io = @ \cup {"db"}]
         group == Chunk(cur.pending, cur.idx)
         ids == SeqToSet(group)
         hash == cur.sigs[Len(cur.sigs)]
     IN IF written
        THEN /\ claims' = UpdateManyPending(ids, "claimed", cur.user, hash, now)
             /\ matched' = matched \cup
                  {<<cur.serial, i>> : i \in {j \in ids : claims'[j] # claims[j]}}
             /\ req' = [req EXCEPT ![r] =
                  IF cur.idx + 1 < NumChunks(cur.pending)
                  THEN [cur EXCEPT !.pc = "c_send", !.idx = @ + 1]
                  ELSE Finish([cur EXCEPT !.idx = @ + 1],
                              Resp(200, "", Len(cur.pending), cur.sigs, 0))]
        ELSE /\ UNCHANGED <<claims, matched>>
             /\ req' = [req EXCEPT ![r] = Finish(cur, Resp(500, "LedgerUnavailable", 0, <<>>, 0))]
  /\ UNCHANGED <<now, ticks, users, bal, ata, txs, started, creates, mailed>>

(* ---- POST /api/transfers/user/cancel ---- *)

CancelStartStrict(r, u, ids) ==
  /\ Free(r)
  /\ SettleBudget
  /\ ids \subseteq ClaimIds
  /\ LET cur == [Begin("cancel", "x_send", u) EXCEPT !.io = {"db"}, !.ids = ids]
         pending == FindPendingForSender(u, ids)
     IN req' = [req EXCEPT ![r] =
                  IF Len(pending) = 0
                  THEN Finish(cur, Resp(404, "NothingToCancel", 0, <<>>, 0))
                  ELSE [cur EXCEPT !.pending = pending]]
  /\ started' = started + 1
  /\ creates' = creates
  /\ UNCHANGED <<now, ticks, users, claims, bal, ata, txs, matched, mailed>>

CancelStart(r, u, ids) ==
  /\ Free(r)
  /\ SettleBudget
  /\ ids \subseteq ClaimIds
  /\ LET cur == [Begin("cancel", "x_send", u) EXCEPT !.io = {"db"}, !.ids = ids]
         pending == FindPendingForSender(u, ids)
     IN req' = [req EXCEPT ![r] =
                  IF Len(pending) = 0
                  THEN Finish(cur, Resp(200, "", 0, <<>>, 0))
                  ELSE [cur EXCEPT !.pending = pending]]
  /\ started' = started + 1
  /\ creates' = creates
  /\ UNCHANGED <<now, ticks, users, claims, bal, ata, txs, matched, mailed>>

\* owners of the group in first-seen order (the Set<string> of the route)
RECURSIVE UniqueOwners(_, _)
UniqueOwners(group, seen) ==
  IF group = <<>> THEN <<>>
  ELSE LET o == claims[Head(group)].senderFromOwner
       IN IF o \in seen THEN UniqueOwners(Tail(group), seen)
          ELSE <<o>> \o UniqueOwners(Tail(group), seen \cup {o})

RECURSIVE RefundIxs(_)
RefundIxs(group) ==
  IF group = <<>> THEN <<>>
  ELSE LET cl == claims[Head(group)]
       IN IF ~(cl.amountUnits > 0) THEN RefundIxs(Tail(group))
          ELSE <<createTransferCheckedInstruction(ESCROW_PUBKEY, cl.senderFromOwner,
                                                  ESCROW_PUBKEY, cl.amountUnits, cl.id)>>
               \o RefundIxs(Tail(group))

CancelInstructionsNetOfFee(group) ==
  LET owners == UniqueOwners(group, {})
      refunds == RefundIxs(group)
  IN << createAssociatedTokenAccountIdempotentInstruction(ESCROW_PUBKEY, ESCROW_PUBKEY) >>
     \o [k \in 1..Len(owners) |->
           createAssociatedTokenAccountIdempotentInstruction(ESCROW_PUBKEY, owners[k])]
     \o [k \in 1..Len(refunds) |->
           [refunds[k] EXCEPT !.amt = @ - toUnits(FEE_UI)]]

CancelInstructions(group) ==
  LET owners == UniqueOwners(group, {})
  IN << createAssociatedTokenAccountIdempotentInstruction(ESCROW_PUBKEY, ESCROW_PUBKEY) >>
     \o [k \in 1..Len(owners) |->
           createAssociatedTokenAccountIdempotentInstruction(ESCROW_PUBKEY, owners[k])]
     \o RefundIxs(group)

CancelSweepSend(r, sent) ==
  /\ req[r].kind = "cancel" /\ req[r].pc = "x_send"
  /\ LET cur == req[r]
         group == Chunk(cur.pending, cur.idx)
         instructions == CancelInstructions(group)
     IN IF Len(instructions) <= 1
        THEN /\ txs' = txs
             /\ req' = [req EXCEPT ![r] =
                  IF cur.idx + 1 < NumChunks(cur.pending)
                  THEN [cur EXCEPT !.idx = @ + 1]
                  ELSE Finish([cur EXCEPT !.idx = @ + 1],
                              Resp(200, "", Len(cur.pending), cur.sigs, 0))]
        ELSE IF sent
        THEN /\ txs' = Append(txs, SentTx(cur.serial, ESCROW_PUBKEY, instructions, {HAVEN_PUBKEY}))
             /\ req' = [req EXCEPT ![r] =
                  [cur EXCEPT !.pc = "x_update", !.built = @ + Len(instructions),
                              !.io = @ \cup {"rpc", "signer", "broadcast"},
                              !.sigs = Append(@, Len(txs) + 1)]]
        ELSE /\ txs' = txs
             /\ req' = [req EXCEPT ![r] =
                  Finish([cur EXCEPT !.io = @ \cup {"rpc", "signer"}],
                         Resp(500, "NetworkUnavailable", 0, <<>>, 0))]
  /\ UNCHANGED <<now, ticks, users, claims, bal, ata, started, creates, matched, mailed>>

CancelSweepUpdate(r, written) ==
  /\ req[r].kind = "cancel" /\ req[r].pc = "x_update"
  /\ LET cur == req[r]
         group == Chunk(cur.pending, cur.idx)
         ids == SeqToSet(group)
     IN IF written
        THEN /\ claims' = UpdateManyPending(ids, "canceled", cur.user, 0, now)
             /\ matched' = matched \cup
                  {<<cur.serial, i>> : i \in {j \in ids : claims'[j] # claims[j]}}
             /\ req' = [req EXCEPT ![r] =
                  IF cur.idx + 1 < NumChunks(cur.pending)
                  THEN [cur EXCEPT !.pc = "x_send", !.idx = @ + 1]
                  ELSE Finish([cur EXCEPT !.idx = @ + 1],
                              Resp(200, "", Len(cur.pending), cur.sigs, 0))]
        ELSE /\ UNCHANGED <<claims, matched>>
             /\ req' = [req EXCEPT ![r] = Finish(cur, Resp(500, "LedgerUnavailable", 0, <<>>, 0))]
  /\ UNCHANGED <<now, ticks, users, bal, ata, txs, started, creates, mailed>>

(* ---- POST /api/transfers/email/claim (token, single claim) ---- *)

SingleClaimStart(r, u, t) ==
  /\ Free(r)
  /\ SettleBudget
  /\ t \in ClaimIds
  /\ t \in mailed
  /\ LET payload == verifyClaimToken(EmailedToken(t), now)
         cur == [Begin("singleClaim", "s_connect", u) EXCEPT !.tokenId = t]
     IN req' = [req EXCEPT ![r] =
                  IF payload.claimId = 0 \/ payload.recipientEmail = "" \/ payload.expiresAt = 0
                  THEN Finish(cur, Resp(401, "InvalidToken", 0, <<>>, 0))
                  ELSE [cur EXCEPT !.token = payload]]
  /\ started' = started + 1
  /\ creates' = creates
  /\ UNCHANGED <<now, ticks, users, claims, bal, ata, txs, matched, mailed>>

SingleClaimLoad(r) ==
  /\ req[r].kind = "singleClaim" /\ req[r].pc = "s_connect"
  /\ LET cur == [req[r] EXCEPT !.io = @ \cup {"db"}]
         payload == cur.token
         hit == FindByTokenId(payload.claimId)
     IN req' = [req EXCEPT ![r] =
          IF now > payload.expiresAt
          THEN IF \E i \in hit : claims[i].status = "pending"
               THEN [cur EXCEPT !.pc = "expire_save"]
               ELSE Finish(cur, Resp(410, "ClaimExpired", 0, <<>>, 0))
          ELSE IF toLowerCase(EmailOf(cur.user)) # toLowerCase(payload.recipientEmail)
          THEN Finish(cur, Resp(403, "EmailMismatch", 0, <<>>, 0))
          ELSE IF hit = {}
          THEN Finish(cur, Resp(404, "ClaimNotFound", 0, <<>>, 0))
          ELSE LET claim == claims[CHOOSE i \in hit : TRUE]
               IN IF claim.status = "claimed"
                  THEN Finish(cur, Resp(200, "alreadyClaimed", 0, <<claim.claimSignature>>, 0))
                  ELSE IF claim.status # "pending"
                  THEN Finish(cur, Resp(409, "ClaimNotPending", 0, <<>>, 0))
                  ELSE IF users[cur.user] = NoWallet
                  THEN Finish(cur, Resp(409, "NoDepositWallet", 0, <<>>, 0))
                  ELSE [cur EXCEPT !.pc = "s_send", !.pending = <<claim.id>>,
                                   !.token = NoToken, !.toOwner = users[cur.user], !.io = @ \cup {"rpc"}]]
  /\ UNCHANGED <<now, ticks, users, claims, bal, ata, txs, started, creates, matched, mailed>>

SingleClaimSend(r, sent) ==
  /\ req[r].kind = "singleClaim" /\ req[r].pc = "s_send"
  /\ LET cur == [req[r] EXCEPT !.io = @ \cup {"rpc", "signer"}]
         instructions == ClaimInstructions(cur.pending, 0, cur.toOwner)
     IN IF sent
        THEN /\ txs' = Append(txs, SentTx(cur.serial, ESCROW_PUBKEY, instructions, {HAVEN_PUBKEY}))
             /\ req' = [req EXCEPT ![r] =
                  [cur EXCEPT !.pc = "s_save", !.built = @ + Len(instructions),
                              !.io = @ \cup {"broadcast"},
                              !.sigs = Append(@, Len(txs) + 1)]]
        ELSE /\ txs' = txs
             /\ req' = [req EXCEPT ![r] = Finish(cur, Resp(500, "NetworkUnavailable", 0, <<>>, 0))]
  /\ UNCHANGED <<now, ticks, users, claims, bal, ata, started, creates, matched, mailed>>

\* claim.status = "claimed"; ...; await claim.save()  (no filter on the stored status)
SingleClaimSave(r, written) ==
  /\ req[r].kind = "singleClaim" /\ req[r].pc = "s_save"
  /\ LET cur == req[r]
         id == cur.pending[1]
         hash == cur.sigs[Len(cur.sigs)]
     IN IF written
        THEN /\ claims' = [claims EXCEPT ![id] =
                  [@ EXCEPT !.status = "claimed", !.claimedByUserId = cur.user,
                            !.claimSignature = hash, !.claimedAt = now]]
             /\ req' = [req EXCEPT ![r] = Finish(cur, Resp(200, "", 1, cur.sigs, 0))]
        ELSE /\ claims' = claims
             /\ req' = [req EXCEPT ![r] = Finish(cur, Resp(500, "LedgerUnavailable", 0, <<>>, 0))]
  /\ UNCHANGED <<now, ticks, users, bal, ata, txs, started, creates, matched, mailed>>

(* ---- POST /api/relay ---- *)

\* buildUserTransferTx: throws unless totalUi > FEE_UI, else net to toOwner and fee to treasury
buildUserTransferTxNetOnly(fromOwner, toOwner, treasuryOwner, totalUi) ==
  LET total == toUnits(totalUi)
      fee == toUnits(FEE_UI)
      net == total - fee
  IN IF totalUi <= FEE_UI
     THEN [ok |-> FALSE, ixs |-> <<>>]
     ELSE [ok |-> TRUE,
           ixs |-> << createTransferCheckedInstruction(fromOwner, toOwner, fromOwner, net, 0) >>]

buildUserTransferTx(fromOwner, toOwner, treasuryOwner, totalUi) ==
  LET total == toUnits(totalUi)
      fee == toUnits(FEE_UI)
      net == total - fee
  IN IF totalUi <= FEE_UI
     THEN [ok |-> FALSE, ixs |-> <<>>]
     ELSE [ok |-> TRUE,
           ixs |-> << createTransferCheckedInstruction(fromOwner, toOwner, fromOwner, net, 0),
                      createTransferCheckedInstruction(fromOwner, treasuryOwner, fromOwner, fee, 0) >>]

buildEnsureAtasTx(from, to, treasury, feePayer) ==
  << createAssociatedTokenAccountIdempotentInstruction(feePayer, from),
     createAssociatedTokenAccountIdempotentInstruction(feePayer, to),
     createAssociatedTokenAccountIdempotentInstruction(feePayer, treasury) >>

\* the relay answers an error; the create route turns it into its own 502
RelayFail(cur, status, error) ==
  IF cur.kind = "create"
  THEN Finish(cur, Resp(502, error, 0, <<>>, 0))
  ELSE Finish(cur, Resp(status, error, 0, cur.sigs, 0))

\* useSponsoredUsdcTransfer.send: the client builds, signs and posts the transaction
HookSend(r, u, to, totalUi) ==
  /\ Free(r)
  /\ RelayBudget
  /\ users[u] # NoWallet
  /\ LET from == users[u]
         cur == [Begin("relayA", "a_begin", u) EXCEPT
                   !.fromOwner = from, !.toOwner = to, !.amountUi = totalUi]
         fee == toUnits(FEE_UI)
         net == toUnits(totalUi) - fee
         ixs == << createAssociatedTokenAccountIdempotentInstruction(HAVEN_PUBKEY, to),
                   createAssociatedTokenAccountIdempotentInstruction(HAVEN_PUBKEY, TREASURY_OWNER),
                   createTransferCheckedInstruction(from, to, from, net, 0),
                   createTransferCheckedInstruction(from, TREASURY_OWNER, from, fee, 0) >>
     IN req' = [req EXCEPT ![r] =
          IF totalUi <= FEE_UI
          THEN Finish(cur, Resp(0, "InvalidAmount", 0, <<>>, 0))
          ELSE [cur EXCEPT !.io = {"rpc", "signer"}, !.built = Len(ixs),
                           !.tx = [NoTx EXCEPT !.payer = HAVEN_PUBKEY, !.ixs = ixs,
                                               !.signed = {from}]]]
  /\ started' = started + 1
  /\ creates' = creates
  /\ UNCHANGED <<now, ticks, users, claims, bal, ata, txs, matched, mailed>>

\* a transaction posted to the relay by any other client of the session's user
RawPost(r, u, to, totalUnits, payer, ownerSigned) ==
  /\ Free(r)
  /\ RelayBudget
  /\ users[u] # NoWallet
  /\ LET from == users[u]
         ixs == << createTransferCheckedInstruction(from, to, from, totalUnits, 0) >>
     IN req' = [req EXCEPT ![r] =
          [Begin("relayA", "a_begin", u) EXCEPT
             !.fromOwner = from, !.toOwner = to,
             !.tx = [NoTx EXCEPT !.payer = payer, !.ixs = ixs,
                                 !.signed = IF ownerSigned THEN {from} ELSE {}]]]
  /\ started' = started + 1
  /\ creates' = creates
  /\ UNCHANGED <<now, ticks, users, claims, bal, ata, txs, matched, mailed>>

RelayABeginNoCheck(r) ==
  /\ req[r].kind = "relayA" /\ req[r].pc = "a_begin"
  /\ req' = [req EXCEPT ![r] = [req[r] EXCEPT !.io = @ \cup {"db"}, !.pc = "a_send"]]
  /\ UNCHANGED <<now, ticks, users, claims, bal, ata, txs, started, creates, matched, mailed>>

\* PATH A: fee payer check on the first static account key
RelayABegin(r) ==
  /\ req[r].kind = "relayA" /\ req[r].pc = "a_begin"
  /\ LET cur == [req[r] EXCEPT !.io = @ \cup {"db"}]
     IN req' = [req EXCEPT ![r] =
          IF cur.tx.payer # HAVEN_PUBKEY
          THEN Finish(cur, Resp(403, "InvalidFeePayer", 0, <<>>, 0))
          ELSE [cur EXCEPT !.pc = "a_send"]]
  /\ UNCHANGED <<now, ticks, users, claims, bal, ata, txs, started, creates, matched, mailed>>

RelayASend(r, sent) ==
  /\ req[r].kind = "relayA" /\ req[r].pc = "a_send"
  /\ LET cur == [req[r] EXCEPT !.io = @ \cup {"signer"}]
     IN IF sent
        THEN /\ txs' = Append(txs, SentTx(cur.serial, cur.tx.payer, cur.tx.ixs,
                                          cur.tx.signed \cup {HAVEN_PUBKEY}))
             /\ req' = [req EXCEPT ![r] =
                  [cur EXCEPT !.pc = "xfer_confirm", !.io = @ \cup {"broadcast"},
                              !.sigs = Append(@, Len(txs) + 1)]]
        ELSE /\ txs' = txs
             /\ req' = [req EXCEPT ![r] = Finish(cur, Resp(500, "NetworkUnavailable", 0, <<>>, 0))]
  /\ UNCHANGED <<now, ticks, users, claims, bal, ata, started, creates, matched, mailed>>

\* PATH B: a semantic intent posted to the relay
IntentPost(r, u, fromOwner, toOwner, totalUi, privyToken) ==
  /\ Free(r)
  /\ RelayBudget
  /\ req' = [req EXCEPT ![r] =
       [Begin("relayB", "relay_begin", u) EXCEPT
          !.fromOwner = fromOwner, !.toOwner = toOwner, !.amountUi = totalUi,
          !.privyToken = privyToken]]
  /\ started' = started + 1
  /\ creates' = creates
  /\ UNCHANGED <<now, ticks, users, claims, bal, ata, txs, matched, mailed>>

\* the wallet of user u that signs for fromOwner: deposit first, then savings
fromWalletIdMaybe(u, fromOwner) ==
  IF users[u] # NoWallet /\ users[u] = fromOwner THEN users[u]
  ELSE IF SavingsWallet(u) # NoWallet /\ SavingsWallet(u) = fromOwner THEN SavingsWallet(u)
  ELSE NoWallet

RelayBeginNoCheck(r) ==
  /\ req[r].kind \in {"relayB", "create"} /\ req[r].pc = "relay_begin"
  /\ req' = [req EXCEPT ![r] = [req[r] EXCEPT !.io = @ \cup {"db", "rpc"}, !.pc = "ata_send"]]
  /\ UNCHANGED <<now, ticks, users, claims, bal, ata, txs, started, creates, matched, mailed>>

RelayBegin(r) ==
  /\ req[r].kind \in {"relayB", "create"} /\ req[r].pc = "relay_begin"
  /\ LET cur == [req[r] EXCEPT !.io = @ \cup {"db", "rpc"}]
     IN req' = [req EXCEPT ![r] =
          IF fromWalletIdMaybe(cur.user, cur.fromOwner) = NoWallet
          THEN RelayFail(cur, 400, "UnrecognizedSource")
          ELSE [cur EXCEPT !.pc = "ata_send"]]
  /\ UNCHANGED <<now, ticks, users, claims, bal, ata, txs, started, creates, matched, mailed>>

RelayAtaSend(r, sent) ==
  /\ req[r].pc = "ata_send"
  /\ LET cur == [req[r] EXCEPT !.io = @ \cup {"signer"}]
         ixs == buildEnsureAtasTx(cur.fromOwner, cur.toOwner, TREASURY_OWNER, HAVEN_PUBKEY)
     IN IF sent
        THEN /\ txs' = Append(txs, SentTx(cur.serial, HAVEN_PUBKEY, ixs, {HAVEN_PUBKEY}))
             /\ req' = [req EXCEPT ![r] =
                  [cur EXCEPT !.pc = "ata_confirm", !.built = @ + Len(ixs),
                              !.io = @ \cup {"broadcast"},
                              !.sigs = Append(@, Len(txs) + 1)]]
        ELSE /\ txs' = txs
             /\ req' = [req EXCEPT ![r] = RelayFail(cur, 500, "AtaCreationFailed")]
  /\ UNCHANGED <<now, ticks, users, claims, bal, ata, started, creates, matched, mailed>>

\* confirmSig on the ATA transaction, then credential, balance read and build
RelayAtaConfirm(r) ==
  /\ req[r].pc = "ata_confirm"
  /\ LET cur == [req[r] EXCEPT !.io = @ \cup {"rpc"}]
         state == txs[cur.sigs[Len(cur.sigs)]].state
         srcAmountUnits == IF cur.fromOwner \in ata THEN bal[cur.fromOwner] ELSE 0
         wantUnits == toUnits(cur.amountUi)
         built == buildUserTransferTx(cur.fromOwner, cur.toOwner, TREASURY_OWNER, cur.amountUi)
     IN req' = [req EXCEPT ![r] =
          IF state = "sent"
          THEN RelayFail(cur, 500, "AtaCreationFailed")
          ELSE IF state = "err"
          THEN RelayFail(cur, 500, "AtaCreationFailed")
          ELSE IF ~cur.privyToken
          THEN RelayFail([cur EXCEPT !.sigs = <<>>], 401, "MissingCredential")
          ELSE IF srcAmountUnits < wantUnits
          THEN RelayFail([cur EXCEPT !.sigs = <<>>, !.io = @ \cup {"signer"}],
                         400, "InsufficientFunds")
          ELSE IF ~built.ok
          THEN RelayFail([cur EXCEPT !.sigs = <<>>, !.io = @ \cup {"signer"}],
                         500, "InvalidAmount")
          ELSE [cur EXCEPT !.pc = "xfer_send", !.sigs = <<>>, !.io = @ \cup {"signer"},
                           !.built = @ + Len(built.ixs),
                           !.tx = [NoTx EXCEPT !.payer = HAVEN_PUBKEY, !.ixs = built.ixs]]]
  /\ UNCHANGED <<now, ticks, users, claims, bal, ata, txs, started, creates, matched, mailed>>

\* signAndSendTransaction({ walletId: fromWalletId, sponsor: true })
RelayXferSend(r, sent) ==
  /\ req[r].pc = "xfer_send"
  /\ LET cur == req[r]
     IN IF sent
        THEN /\ txs' = Append(txs, SentTx(cur.serial, cur.tx.payer, cur.tx.ixs,
                                          {cur.fromOwner, HAVEN_PUBKEY}))
             /\ req' = [req EXCEPT ![r] =
                  [cur EXCEPT !.pc = "xfer_confirm", !.io = @ \cup {"broadcast"},
                              !.sigs = <<Len(txs) + 1>>]]
        ELSE /\ txs' = txs
             /\ req' = [req EXCEPT ![r] = RelayFail(cur, 500, "NetworkUnavailable")]
  /\ UNCHANGED <<now, ticks, users, claims, bal, ata, started, creates, matched, mailed>>

\* the same step answering with the signature without awaiting the outcome
RelayXferConfirmNoWait(r) ==
  /\ req[r].pc = "xfer_confirm"
  /\ LET cur == [req[r] EXCEPT !.io = @ \cup {"rpc"}]
     IN req' = [req EXCEPT ![r] =
          IF cur.kind = "create"
          THEN [cur EXCEPT !.pc = "persist"]
          ELSE Finish(cur, Resp(200, "", 0, cur.sigs, 0))]
  /\ UNCHANGED <<now, ticks, users, claims, bal, ata, txs, started, creates, matched, mailed>>

\* confirmSig on the transfer; a wait that ends while the transaction is still in flight times out
RelayXferConfirm(r) ==
  /\ req[r].pc = "xfer_confirm"
  /\ LET cur == [req[r] EXCEPT !.io = @ \cup {"rpc"}]
         state == txs[cur.sigs[Len(cur.sigs)]].state
     IN req' = [req EXCEPT ![r] =
          IF state = "sent"
          THEN RelayFail(cur, 500, "ConfirmationTimeout")
          ELSE IF state = "err"
          THEN RelayFail(cur, 500, "OnChainRejected")
          ELSE IF cur.kind = "create"
          THEN [cur EXCEPT !.pc = "persist"]
          ELSE Finish(cur, Resp(200, "", 0, cur.sigs, 0))]
  /\ UNCHANGED <<now, ticks, users, claims, bal, ata, txs, started, creates, matched, mailed>>

(* ---- POST /api/transfers/email/create ---- *)

\* EmailClaim.findOne({ idempotencyKey, status: "pending", recipientEmail, senderUserId }).
\* The schema has no idempotencyKey path, so no row stores a key: with the
\* filter kept the lookup matches no row, and with strictQuery the unknown path
\* is dropped from the filter.
FindIdempotent(idempotencyKey, recipientEmail, sender, strictQuery) ==
  {i \in ClaimIds :
     /\ strictQuery
     /\ claims[i].status = "pending"
     /\ claims[i].recipientEmail = normEmail(recipientEmail)
     /\ claims[i].senderUserId = sender}

CreateStart(r, u, recipientEmail, fromOwner, amountUi, privyToken, idempotencyKey, strictQuery) ==
  /\ Free(r)
  /\ started < MaxRequests
  /\ LET cur == [Begin("create", "relay_begin", u) EXCEPT
                   !.email = recipientEmail, !.key = idempotencyKey,
                   !.fromOwner = fromOwner,
                   !.toOwner = ESCROW_PUBKEY, !.amountUi = amountUi,
                   !.privyToken = privyToken]
         hit == IF idempotencyKey = "" THEN {}
                ELSE FindIdempotent(idempotencyKey, recipientEmail, u, strictQuery)
     IN req' = [req EXCEPT ![r] =
          IF amountUi <= FEE_UI
          THEN Finish(cur, Resp(400, "InvalidAmount", 0, <<>>, 0))
          ELSE IF hit # {}
          THEN LET existing == claims[CHOOSE i \in hit : \A j \in hit : i <= j]
               IN Finish([cur EXCEPT !.io = {"db"}],
                         Resp(200, "idempotencyHit", 0, <<existing.escrowSignature>>, existing.id))
          ELSE [cur EXCEPT !.io = {"db"}]]
  /\ started' = started + 1
  /\ creates' = creates + 1
  /\ UNCHANGED <<now, ticks, users, claims, bal, ata, txs, matched, mailed>>

CreatePersist(r, written) ==
  /\ req[r].kind = "create" /\ req[r].pc = "persist"
  /\ LET cur == req[r]
         expires == now + TOKEN_TTL_MS
         amountUnits == toUnits(cur.amountUi)
     IN IF written
        THEN /\ claims' = Append(claims,
                  NewClaim(Len(claims) + 1, cur.user, cur.fromOwner, normEmail(cur.email),
                           amountUnits, cur.sigs[1], expires, now))
             /\ req' = [req EXCEPT ![r] =
                  [cur EXCEPT !.pc = "email",
                              !.token = signClaimToken(Len(claims) + 1, normEmail(cur.email), expires)]]
        ELSE /\ claims' = claims
             /\ req' = [req EXCEPT ![r] = Finish(cur, Resp(500, "LedgerUnavailable", 0, <<>>, 0))]
  /\ UNCHANGED <<now, ticks, users, bal, ata, txs, started, creates, matched, mailed>>

\* the same step undoing the claim when the e-mail cannot be sent
CreateEmailRollback(r, delivered) ==
  /\ req[r].kind = "create" /\ req[r].pc = "email"
  /\ req' = [req EXCEPT ![r] =
       IF delivered
       THEN Finish(req[r], Resp(200, "", 0, req[r].sigs, req[r].token.claimId))
       ELSE Finish(req[r], Resp(500, "EmailFailed", 0, <<>>, 0))]
  /\ mailed' = IF delivered THEN mailed \cup {req[r].token.claimId} ELSE mailed
  /\ claims' = IF delivered THEN claims
               ELSE [claims EXCEPT ![req[r].token.claimId].status = "canceled"]
  /\ UNCHANGED <<now, ticks, users, bal, ata, txs, started, creates, matched>>

CreateEmail(r, delivered) ==
  /\ req[r].kind = "create" /\ req[r].pc = "email"
  /\ req' = [req EXCEPT ![r] =
       IF delivered
       THEN Finish(req[r], Resp(200, "", 0, req[r].sigs, req[r].token.claimId))
       ELSE Finish(req[r], Resp(500, "EmailFailed", 0, <<>>, 0))]
  /\ mailed' = IF delivered THEN mailed \cup {req[r].token.claimId} ELSE mailed
  /\ UNCHANGED <<now, ticks, users, claims, bal, ata, txs, started, creates, matched>>

(* ---- the settlement network and the clock ---- *)

Land(s) ==
  /\ s \in 1..Len(txs)
  /\ txs[s].state = "sent"
  /\ LET tx == txs[s]
         res == Exec(tx.ixs, bal, ata)
         good == RequiredSigners(tx) \subseteq tx.signed /\ res.ok
     IN /\ txs' = [txs EXCEPT ![s].state = IF good THEN "ok" ELSE "err"]
        /\ bal' = IF good THEN res.bal ELSE bal
        /\ ata' = IF good THEN res.ata ELSE ata
  /\ UNCHANGED <<now, ticks, users, claims, req, started, creates, matched, mailed>>

Tick(d) ==
  /\ ticks < MaxTicks
  /\ now' = now + d
  /\ ticks' = ticks + 1
  /\ UNCHANGED <<users, claims, bal, ata, txs, req, started, creates, matched, mailed>>

Senders == {"alice"}
Recipients == {"B"}

\* the claim ledger: create, the claim routes, cancel, the network and the clock
Next ==
  \/ \E r \in Slots, u \in Users, t \in ClaimIds : TokenClaimStart(r, u, t)
  \/ \E r \in Slots, p \in BOOLEAN : TokenClaimGather(r, p)
  \/ \E r \in Slots : ExpireSave(r)
  \/ \E r \in Slots, u \in Users, ids \in SUBSET ClaimIds : UserClaimStart(r, u, ids)
  \/ \E r \in Slots, ok \in BOOLEAN : ClaimSweepSend(r, ok)
  \/ \E r \in Slots, ok \in BOOLEAN : ClaimSweepUpdate(r, ok)
  \/ \E r \in Slots, u \in Senders, ids \in SUBSET ClaimIds : CancelStart(r, u, ids)
  \/ \E r \in Slots, ok \in BOOLEAN : CancelSweepSend(r, ok)
  \/ \E r \in Slots, ok \in BOOLEAN : CancelSweepUpdate(r, ok)
  \/ \E r \in Slots, u \in Users, t \in ClaimIds : SingleClaimStart(r, u, t)
  \/ \E r \in Slots : SingleClaimLoad(r)
  \/ \E r \in Slots, ok \in BOOLEAN : SingleClaimSend(r, ok)
  \/ \E r \in Slots, ok \in BOOLEAN : SingleClaimSave(r, ok)
  \/ \E r \in Slots, u \in Senders, e \in RawEmails, a \in ClaimAmountsUi :
       CreateBudget /\ CreateStart(r, u, e, users[u], a, TRUE, "", FALSE)
  \/ \E r \in Slots : RelayBegin(r)
  \/ \E r \in Slots, ok \in BOOLEAN : RelayAtaSend(r, ok)
  \/ \E r \in Slots : RelayAtaConfirm(r)
  \/ \E r \in Slots, ok \in BOOLEAN : RelayXferSend(r, ok)
  \/ \E r \in Slots : RelayXferConfirm(r)
  \/ \E r \in Slots, ok \in BOOLEAN : CreatePersist(r, ok)
  \/ \E r \in Slots, ok \in BOOLEAN : CreateEmail(r, ok)
  \/ \E s \in 1..Len(txs) : Land(s)
  \/ \E d \in TickSteps : Tick(d)

Spec == Init /\ [][Next]_vars

\* the relay alone: both paths of POST /api/relay, the client hook and the network
NextRelay ==
  \/ \E r \in Slots, u \in Users, to \in Recipients, a \in AmountsUi : HookSend(r, u, to, a)
  \/ \E r \in Slots, u \in Users, to \in Recipients, p \in {HAVEN_PUBKEY, "A"}, sg \in BOOLEAN :
       RawPost(r, u, to, toUnits(FEE_UI), p, sg)
  \/ \E r \in Slots : RelayABegin(r)
  \/ \E r \in Slots, ok \in BOOLEAN : RelayASend(r, ok)
  \/ \E r \in Slots, u \in Users, f \in {"A", "B", "SA"}, to \in Recipients,
          a \in AmountsUi, k \in BOOLEAN :
       IntentPost(r, u, f, to, a, k)
  \/ \E r \in Slots : RelayBegin(r)
  \/ \E r \in Slots, ok \in BOOLEAN : RelayAtaSend(r, ok)
  \/ \E r \in Slots : RelayAtaConfirm(r)
  \/ \E r \in Slots, ok \in BOOLEAN : RelayXferSend(r, ok)
  \/ \E r \in Slots : RelayXferConfirm(r)
  \/ \E s \in 1..Len(txs) : Land(s)

SpecRelay == Init /\ [][NextRelay]_vars

\* the claim routes alone: create, both claimAll routes, the network and the clock
NextClaim ==
  \/ \E r \in Slots, u \in Users, t \in ClaimIds : TokenClaimStart(r, u, t)
  \/ \E r \in Slots, p \in BOOLEAN : TokenClaimGather(r, p)
  \/ \E r \in Slots, u \in Users, ids \in SUBSET ClaimIds : UserClaimStart(r, u, ids)
  \/ \E r \in Slots, ok \in BOOLEAN : ClaimSweepSend(r, ok)
  \/ \E r \in Slots, ok \in BOOLEAN : ClaimSweepUpdate(r, ok)
  \/ \E r \in Slots, u \in Senders, e \in RawEmails, a \in ClaimAmountsUi :
       CreateBudget /\ CreateStart(r, u, e, users[u], a, TRUE, "", FALSE)
  \/ \E r \in Slots : RelayBegin(r)
  \/ \E r \in Slots, ok \in BOOLEAN : RelayAtaSend(r, ok)
  \/ \E r \in Slots : RelayAtaConfirm(r)
  \/ \E r \in Slots, ok \in BOOLEAN : RelayXferSend(r, ok)
  \/ \E r \in Slots : RelayXferConfirm(r)
  \/ \E r \in Slots, ok \in BOOLEAN : CreatePersist(r, ok)
  \/ \E r \in Slots, ok \in BOOLEAN : CreateEmail(r, ok)
  \/ \E s \in 1..Len(txs) : Land(s)

SpecClaim == Init /\ [][NextClaim]_vars

IdemKeys == {"k1"}

\* create-email-claim alone, with the relay leg it calls, cancel and the network
NextCreate ==
  \/ \E r \in Slots, u \in Senders, e \in RawEmails, a \in ClaimAmountsUi,
          k \in IdemKeys, sq \in BOOLEAN :
       CreateStart(r, u, e, users[u], a, TRUE, k, sq)
  \/ \E r \in Slots : RelayBegin(r)
  \/ \E r \in Slots, ok \in BOOLEAN : RelayAtaSend(r, ok)
  \/ \E r \in Slots : RelayAtaConfirm(r)
  \/ \E r \in Slots, ok \in BOOLEAN : RelayXferSend(r, ok)
  \/ \E r \in Slots : RelayXferConfirm(r)
  \/ \E r \in Slots, ok \in BOOLEAN : CreatePersist(r, ok)
  \/ \E r \in Slots, ok \in BOOLEAN : CreateEmail(r, ok)
  \/ \E r \in Slots, u \in Senders, ids \in SUBSET ClaimIds : CancelStart(r, u, ids)
  \/ \E r \in Slots, ok \in BOOLEAN : CancelSweepSend(r, ok)
  \/ \E r \in Slots, ok \in BOOLEAN : CancelSweepUpdate(r, ok)
  \/ \E s \in 1..Len(txs) : Land(s)

SpecCreate == Init /\ [][NextCreate]_vars

\* the state a completed create-email-claim leaves behind: one pending claim
\* whose link was e-mailed, its two transactions confirmed, the recipient
\* onboarded and escrow holding a float
Claimed(wallet) ==
  \E u \in Senders, e \in RawEmails, a \in ClaimAmountsUi :
    LET from == PrivyWallet(u)
        ataIxs == buildEnsureAtasTx(from, ESCROW_PUBKEY, TREASURY_OWNER, HAVEN_PUBKEY)
        xferIxs == buildUserTransferTx(from, ESCROW_PUBKEY, TREASURY_OWNER, a).ixs
        bal0 == [o \in Owners |-> IF o = from THEN InitBal
                                   ELSE IF o = ESCROW_PUBKEY THEN EscrowFloat ELSE 0]
        res == Exec(ataIxs \o xferIxs, bal0, {from, ESCROW_PUBKEY})
    IN /\ now = 0
       /\ ticks = 0
       /\ users = [v \in Users |-> IF v = "bob" THEN wallet ELSE PrivyWallet(v)]
       /\ claims = << NewClaim(1, u, from, normEmail(e), toUnits(a), 2, TOKEN_TTL_MS, 0) >>
       /\ bal = res.bal
       /\ ata = res.ata
       /\ req = [r \in Slots |->
                  IF r = 1
                  THEN [Idle EXCEPT !.kind = "create", !.pc = "done", !.serial = 1,
                                    !.user = u, !.email = e, !.amountUi = a,
                                    !.io = {"db", "rpc", "signer", "broadcast"},
                                    !.built = Len(ataIxs) + Len(xferIxs),
                                    !.resp = Resp(200, "", 0, <<2>>, 1)]
                  ELSE Idle]
       /\ txs = << [SentTx(1, HAVEN_PUBKEY, ataIxs, {HAVEN_PUBKEY}) EXCEPT !.state = "ok"],
                   [SentTx(1, HAVEN_PUBKEY, xferIxs, {from, HAVEN_PUBKEY}) EXCEPT !.state = "ok"] >>
       /\ started = 1
       /\ creates = 1
       /\ matched = {}
       /\ mailed = {1}

InitClaimed == Claimed(PrivyWallet("bob"))

\* the same when the recipient has signed up but has no deposit wallet yet
InitNoWallet == Claimed(NoWallet)

\* an e-mailed claim over time: the token and session claim routes, the
\* network and the clock
NextExpiry ==
  \/ \E r \in Slots, u \in Users, t \in ClaimIds : TokenClaimStart(r, u, t)
  \/ \E r \in Slots, p \in BOOLEAN : TokenClaimGather(r, p)
  \/ \E r \in Slots : ExpireSave(r)
  \/ \E r \in Slots, u \in Users, ids \in SUBSET ClaimIds : UserClaimStart(r, u, ids)
  \/ \E r \in Slots, ok \in BOOLEAN : ClaimSweepSend(r, ok)
  \/ \E r \in Slots, ok \in BOOLEAN : ClaimSweepUpdate(r, ok)
  \/ \E r \in Slots, u \in Users, t \in ClaimIds : SingleClaimStart(r, u, t)
  \/ \E r \in Slots : SingleClaimLoad(r)
  \/ \E r \in Slots, ok \in BOOLEAN : SingleClaimSend(r, ok)
  \/ \E r \in Slots, ok \in BOOLEAN : SingleClaimSave(r, ok)
  \/ \E s \in 1..Len(txs) : Land(s)
  \/ \E d \in TickSteps : Tick(d)

SpecExpiry == InitClaimed /\ [][NextExpiry]_vars

\* a recipient without a deposit wallet: the three claim routes and the network
NextProvision ==
  \/ \E r \in Slots, u \in Users, t \in ClaimIds : TokenClaimStart(r, u, t)
  \/ \E r \in Slots, p \in BOOLEAN : TokenClaimGather(r, p)
  \/ \E r \in Slots, u \in Users, ids \in SUBSET ClaimIds : UserClaimStart(r, u, ids)
  \/ \E r \in Slots, ok \in BOOLEAN : ClaimSweepSend(r, ok)
  \/ \E r \in Slots, ok \in BOOLEAN : ClaimSweepUpdate(r, ok)
  \/ \E r \in Slots, u \in Users, t \in ClaimIds : SingleClaimStart(r, u, t)
  \/ \E r \in Slots : SingleClaimLoad(r)
  \/ \E r \in Slots, ok \in BOOLEAN : SingleClaimSend(r, ok)
  \/ \E r \in Slots, ok \in BOOLEAN : SingleClaimSave(r, ok)
  \/ \E s \in 1..Len(txs) : Land(s)

SpecProvision == InitNoWallet /\ [][NextProvision]_vars

\* an e-mailed claim and repeated requests on it: the claim routes, cancel,
\* the network and the clock
NextRepeat ==
  \/ \E r \in Slots, u \in Users, t \in ClaimIds : TokenClaimStart(r, u, t)
  \/ \E r \in Slots, p \in BOOLEAN : TokenClaimGather(r, p)
  \/ \E r \in Slots : ExpireSave(r)
  \/ \E r \in Slots, u \in Users, ids \in SUBSET ClaimIds : UserClaimStart(r, u, ids)
  \/ \E r \in Slots, ok \in BOOLEAN : ClaimSweepSend(r, ok)
  \/ \E r \in Slots, ok \in BOOLEAN : ClaimSweepUpdate(r, ok)
  \/ \E r \in Slots, u \in Users, t \in ClaimIds : SingleClaimStart(r, u, t)
  \/ \E r \in Slots : SingleClaimLoad(r)
  \/ \E r \in Slots, ok \in BOOLEAN : SingleClaimSend(r, ok)
  \/ \E r \in Slots, ok \in BOOLEAN : SingleClaimSave(r, ok)
  \/ \E r \in Slots, u \in Users, ids \in SUBSET ClaimIds : CancelStart(r, u, ids)
  \/ \E r \in Slots, ok \in BOOLEAN : CancelSweepSend(r, ok)
  \/ \E r \in Slots, ok \in BOOLEAN : CancelSweepUpdate(r, ok)
  \/ \E s \in 1..Len(txs) : Land(s)
  \/ \E d \in TickSteps : Tick(d)

SpecRepeat == InitClaimed /\ [][NextRepeat]_vars

(* ============================== properties ============================= *)

\* signatures of the transactions that carry a transfer for claim row i
SweepsOf(i) ==
  {s \in 1..Len(txs) : \E k \in 1..Len(txs[s].ixs) :
      txs[s].ixs[k].op = "xfer" /\ txs[s].ixs[k].claim = i}

\* minor units that transaction s moves into the holding account of owner
CreditedTo(s, owner) ==
  SumSeq([k \in 1..Len(txs[s].ixs) |->
            IF txs[s].ixs[k].op = "xfer" /\ txs[s].ixs[k].dst = owner
            THEN txs[s].ixs[k].amt ELSE 0])

PendingSum ==
  SumSeq([i \in ClaimIds |-> IF claims[i].status = "pending" THEN claims[i].amountUnits ELSE 0])

ClaimKinds == {"tokenClaim", "userClaim"}
SettleKinds == {"tokenClaim", "userClaim", "singleClaim", "cancel"}

\* C1: at most one escrow-sourced transfer of a claim's amountUnits is ever
\* broadcast; the same claim is never swept into two transactions.
C1_SweptAtMostOnce ==
  \A i \in ClaimIds : Cardinality(SweepsOf(i)) <= 1

\* C2: the sum of amountUnits over all pending claims does not exceed the
\* balance of the escrow holding account.
C2_PendingCoveredByEscrow ==
  PendingSum <= bal[ESCROW_PUBKEY]

\* C3: the amountUnits recorded on a claim row equals the minor units that the
\* create-leg transfer credited to the escrow holding account.
C3_RecordedEqualsCredited ==
  \A i \in ClaimIds :
     claims[i].amountUnits = CreditedTo(claims[i].escrowSignature, ESCROW_PUBKEY)

\* C4: a claim whose status is claimed, canceled or expired never changes
\* status again; every status change is a transition out of pending.
C4_TerminalIsFinal ==
  [][\A i \in ClaimIds :
       claims[i].status # "pending" => claims'[i].status = claims[i].status]_vars

\* C5: a status is written as claimed or canceled only after the sweep
\* transaction that moves the claim's funds has been confirmed successful.
C5_WriteAfterConfirmation ==
  [][\A i \in ClaimIds :
       (claims[i].status = "pending" /\ claims'[i].status \in {"claimed", "canceled"})
         => \E s \in SweepsOf(i) : txs[s].state = "ok"]_vars

\* C6: once the claim and cancel requests have ended and their transactions
\* have resolved, no claim is pending while its funds have left escrow and no
\* claim is claimed or canceled while its funds are still in escrow.
C6_LedgerMatchesChain ==
  (/\ \A r \in Slots : req[r].kind \in SettleKinds => req[r].pc = "done"
   /\ \A s \in 1..Len(txs) : txs[s].state # "sent")
  => \A i \in ClaimIds :
       /\ claims[i].status = "pending" => \A s \in SweepsOf(i) : txs[s].state # "ok"
       /\ claims[i].status \in {"claimed", "canceled"}
            => \E s \in SweepsOf(i) : txs[s].state = "ok"

\* C7: when two claimAll requests for the same recipient ran concurrently (both
\* gathered the same pending claims), the claimedCount values of the two
\* responses add up to the number of claims that were pending.
C7_CountsAddUp ==
  \A r1, r2 \in Slots :
     (/\ r1 # r2
      /\ req[r1].kind \in ClaimKinds /\ req[r2].kind \in ClaimKinds
      /\ req[r1].pc = "done" /\ req[r2].pc = "done"
      /\ req[r1].resp.status = 200 /\ req[r2].resp.status = 200
      /\ req[r1].user = req[r2].user
      /\ req[r1].pending # <<>> /\ req[r1].pending = req[r2].pending)
     => req[r1].resp.count + req[r2].resp.count = Len(req[r1].pending)

\* C8: of the conditional updates (status = pending) of concurrent claimAll
\* requests at most one modifies a given claim; an update that finds the claim
\* no longer pending leaves the row unchanged, the request goes on as a
\* success, and every claim a successful claimAll gathered has left pending.
C8_OneWinnerLoserNoOp ==
  /\ [](\A i \in ClaimIds : Cardinality({ser \in 1..started : <<ser, i>> \in matched}) <= 1)
  /\ [](\A r \in Slots :
          (req[r].kind \in ClaimKinds /\ req[r].pc = "done" /\ req[r].resp.status = 200)
            => \A k \in 1..Len(req[r].pending) : claims[req[r].pending[k]].status # "pending")
  /\ [][\A r \in Slots :
          (req[r].kind \in ClaimKinds /\ req[r].pc = "c_update" /\ req'[r] # req[r])
            => /\ \A i \in SeqToSet(Chunk(req[r].pending, req[r].idx)) :
                    claims[i].status # "pending" => claims'[i] = claims[i]
               /\ req'[r].resp.error # "LedgerUnavailable"
                    => (req'[r].pc = "c_send" \/ req'[r].resp.status = 200)]_vars

\* two claimAll requests gathered the same claim; one update modified it, the
\* other request matched nothing and answered 200
C8_Witness ==
  \E r \in Slots, i \in ClaimIds, ser \in 1..started :
     /\ req[r].kind \in ClaimKinds /\ req[r].pc = "done" /\ req[r].resp.status = 200
     /\ i \in SeqToSet(req[r].pending)
     /\ <<ser, i>> \in matched /\ ser # req[r].serial
     /\ \E q \in Slots : req[q].serial = ser /\ req[q].kind \in ClaimKinds
     /\ claims[i].status = "claimed"

\* C9: no peer-transfer transaction is submitted to the network unless both the
\* source owner's and the sponsor's signatures are present on it.
C9_BothSignaturesBeforeBroadcast ==
  \A s \in 1..Len(txs) : RequiredSigners(txs[s]) \subseteq txs[s].signed

\* C10: createTransfer with a total not above the fixed fee fails with
\* InvalidAmount on every path, before any external call and with no
\* instruction built.
C10_UnderFeeRejectedFirst ==
  \A r \in Slots :
     (/\ req[r].kind \in {"relayA", "relayB"} /\ req[r].pc = "done"
      /\ req[r].amountUi > 0 /\ req[r].amountUi <= FEE_UI)
     => /\ req[r].resp.error = "InvalidAmount"
        /\ req[r].io = {}
        /\ req[r].built = 0

\* transactions of request serial ser that move funds into escrow
EscrowLegsOf(ser) ==
  {s \in 1..Len(txs) : txs[s].by = ser /\ CreditedTo(s, ESCROW_PUBKEY) > 0}

\* C11: two create-email-claim calls with the same idempotency key, sender,
\* recipient and amount that both succeed return the same claimId, and between
\* them only one transfer into escrow is sent.
C11_SameKeySameClaim ==
  \A r1, r2 \in Slots :
     (/\ r1 # r2
      /\ req[r1].kind = "create" /\ req[r2].kind = "create"
      /\ req[r1].pc = "done" /\ req[r2].pc = "done"
      /\ req[r1].resp.status = 200 /\ req[r2].resp.status = 200
      /\ req[r1].key # "" /\ req[r1].key = req[r2].key
      /\ req[r1].user = req[r2].user
      /\ normEmail(req[r1].email) = normEmail(req[r2].email)
      /\ req[r1].amountUi = req[r2].amountUi)
     => /\ req[r1].resp.claimId = req[r2].resp.claimId
        /\ Cardinality(EscrowLegsOf(req[r1].serial) \cup EscrowLegsOf(req[r2].serial)) <= 1

\* C12: every claim row carries the signature of an escrow-leg transfer that
\* was confirmed successful and credited escrow before the row was written;
\* a create request whose escrow leg failed has no claim row.
C12_RowOnlyAfterConfirmedEscrow ==
  /\ \A i \in ClaimIds :
        /\ claims[i].escrowSignature \in 1..Len(txs)
        /\ txs[claims[i].escrowSignature].state = "ok"
        /\ CreditedTo(claims[i].escrowSignature, ESCROW_PUBKEY) > 0
  /\ \A r \in Slots :
        (req[r].kind = "create" /\ req[r].pc = "done" /\ req[r].resp.status = 502)
          => \A i \in ClaimIds : txs[claims[i].escrowSignature].by # req[r].serial

\* a create request broadcast its escrow leg, the leg was not confirmed, the
\* request answered 502 and no row exists
C12_Witness ==
  \E r \in Slots :
     /\ req[r].kind = "create" /\ req[r].pc = "done" /\ req[r].resp.status = 502
     /\ EscrowLegsOf(req[r].serial) # {}
     /\ claims = <<>>

\* C13: when the claim e-mail cannot be sent, the request ends without touching
\* the ledger or the chain: the row it wrote is still there with the confirmed
\* escrowSignature, and while it is pending the sender's pending query and
\* (until the link expires) the recipient's pending query return it.
C13_EmailFailureKeepsClaim ==
  [][\A r \in Slots :
       (/\ req[r].kind = "create" /\ req[r].pc = "email"
        /\ req'[r].pc = "done" /\ req'[r].resp.error = "EmailFailed")
       => LET i == req[r].token.claimId
          IN /\ i \in ClaimIds
             /\ claims' = claims /\ txs' = txs /\ bal' = bal
             /\ claims[i].escrowSignature = req[r].sigs[1]
             /\ txs[claims[i].escrowSignature].state = "ok"
             /\ claims[i].status = "pending"
                  => /\ claims[i].tokenExpiresAt > now
                          => \E u \in Users :
                               i \in SeqToSet(FindPendingForRecipient(toLowerCase(EmailOf(u)), {}))
                     /\ i \in SeqToSet(FindPendingForSender(req[r].user, {}))]_vars

\* the e-mail of a create request failed and the row it wrote is pending
C13_Witness ==
  \E r \in Slots :
     /\ req[r].kind = "create" /\ req[r].pc = "done" /\ req[r].resp.error = "EmailFailed"
     /\ \E i \in ClaimIds : claims[i].status = "pending" /\ txs[claims[i].escrowSignature].by = req[r].serial

TokenKinds == {"tokenClaim", "singleClaim"}

\* C14: a claim attempt that is turned away because its token has expired
\* reports ClaimExpired, and the claim named by the token is no longer pending
\* (it was flipped to expired).
C14_ExpiredTokenFlipsClaim ==
  \A r \in Slots :
     (/\ req[r].kind \in TokenKinds /\ req[r].pc = "done"
      /\ req[r].resp.error \in {"InvalidToken", "ClaimExpired"})
     => /\ req[r].resp.error = "ClaimExpired"
        /\ claims[req[r].tokenId].status # "pending"

SweepKinds == {"tokenClaim", "userClaim", "singleClaim"}

\* C15: a claim whose tokenExpiresAt is in the past is in no pending read
\* (pending list, pending summary, profile, sent list) whatever its status,
\* and no claim route gathers it for a sweep.
C15_ExpiredNeverListedOrGathered ==
  /\ [](\A i \in ClaimIds :
          claims[i].tokenExpiresAt < now
            => /\ \A u \in Users :
                    /\ i \notin SeqToSet(PendingList(toLowerCase(EmailOf(u))))
                    /\ i \notin PendingSummary(toLowerCase(EmailOf(u))).ids
                    /\ i \notin SeqToSet(ProfilePending(toLowerCase(EmailOf(u))))
                    /\ i \notin SeqToSet(SentList(u))
               /\ \A u \in Users :
                    PendingSummary(toLowerCase(EmailOf(u))).count
                      = Len(PendingList(toLowerCase(EmailOf(u)))))
  /\ [][\A r \in Slots :
          (/\ req'[r].kind \in SweepKinds
           /\ req'[r].pc \in {"c_send", "s_send"}
           /\ req[r].pc \in {"idle", "done", "t_connect", "s_connect"})
          => \A k \in 1..Len(req'[r].pending) :
               ~(claims[req'[r].pending[k]].tokenExpiresAt < now)]_vars

\* a claim has expired while pending and a claim request of its recipient found
\* nothing to gather
C15_Witness ==
  \E i \in ClaimIds, r \in Slots :
     /\ claims[i].tokenExpiresAt < now /\ claims[i].status = "pending"
     /\ req[r].kind = "userClaim" /\ req[r].pc = "done"
     /\ toLowerCase(EmailOf(req[r].user)) = claims[i].recipientEmail
     /\ req[r].resp.status = 200 /\ req[r].resp.count = 0 /\ req[r].pending = <<>>
     /\ req[r].serial = started

(* ---- a ledger of many claims: the sweeps in batches ---- *)

LedgerClaims == 10

\* the sender of the k-th create of the ledger: the last one is bob's
LedgerSender(k) == IF k < LedgerClaims THEN "alice" ELSE "bob"
LedgerRecipient(k) == IF k < LedgerClaims THEN "Bob@X.com" ELSE "alice@x.com"

\* the two transactions that the k-th create sent through the relay
LedgerTxs(k, a) ==
  LET from == PrivyWallet(LedgerSender(k))
  IN << [SentTx(0, HAVEN_PUBKEY,
                buildEnsureAtasTx(from, ESCROW_PUBKEY, TREASURY_OWNER, HAVEN_PUBKEY),
                {HAVEN_PUBKEY}) EXCEPT !.state = "ok"],
        [SentTx(0, HAVEN_PUBKEY,
                buildUserTransferTx(from, ESCROW_PUBKEY, TREASURY_OWNER, a).ixs,
                {from, HAVEN_PUBKEY}) EXCEPT !.state = "ok"] >>

RECURSIVE LedgerHistory(_, _)
LedgerHistory(n, a) ==
  IF n = 0 THEN <<>> ELSE LedgerHistory(n - 1, a) \o LedgerTxs(n, a)

\* the state that LedgerClaims completed creates leave behind: every claim
\* pending and e-mailed, in creation order, every sender left with InitBal;
\* the rows in zero are stored with amountUnits 0, and the time is clock
Ledger(zero, clock) ==
  \E a \in ClaimAmountsUi, float \in {0, EscrowFloat} :
    LET xfer == buildUserTransferTx("A", ESCROW_PUBKEY, TREASURY_OWNER, a).ixs
        net == xfer[1].amt
        fee == xfer[2].amt
    IN /\ now = clock
       /\ ticks = 0
       /\ users = [v \in Users |-> PrivyWallet(v)]
       /\ claims = [k \in 1..LedgerClaims |->
                      NewClaim(k, LedgerSender(k), PrivyWallet(LedgerSender(k)),
                               normEmail(LedgerRecipient(k)),
                               IF k \in zero THEN 0 ELSE toUnits(a), 2 * k,
                               k + TOKEN_TTL_MS, k)]
       /\ bal = [o \in Owners |->
                   IF o = ESCROW_PUBKEY THEN float + LedgerClaims * net
                   ELSE IF o = TREASURY_OWNER THEN LedgerClaims * fee
                   ELSE IF \E u \in Users : PrivyWallet(u) = o THEN InitBal
                   ELSE 0]
       /\ ata = {"A", "B", ESCROW_PUBKEY, TREASURY_OWNER}
       /\ req = [r \in Slots |-> Idle]
       /\ txs = LedgerHistory(LedgerClaims, a)
       /\ started = 0
       /\ creates = 0
       /\ matched = {}
       /\ mailed = 1..LedgerClaims

InitLedger == Ledger({}, LedgerClaims)

\* the same ledger with two rows of amountUnits 0: the schema sets no minimum
\* on amountUnits, and the sweeps test for such rows
InitZero == Ledger({1, 2}, LedgerClaims)

\* the ledger once every claim's tokenExpiresAt has passed
InitLapsed == Ledger({}, LedgerClaims + TOKEN_TTL_MS + 500)

\* the claim ids a client of the ledger posts: none, two old claims, one full
\* batch, or an old claim of alice together with bob's
IdChoices == {{}, {1, 2}, 1..MAX_PER_TX, {2, LedgerClaims}}

SweepBudget == started < MaxSweeps

\* the sweeps over the ledger: both claimAll routes, cancel and the network
NextSweep ==
  \/ \E r \in Slots, u \in Users : SweepBudget /\ TokenClaimStart(r, u, 1)
  \/ \E r \in Slots, p \in BOOLEAN : TokenClaimGather(r, p)
  \/ \E r \in Slots, u \in Users, ids \in IdChoices : SweepBudget /\ UserClaimStart(r, u, ids)
  \/ \E r \in Slots, ok \in BOOLEAN : ClaimSweepSend(r, ok)
  \/ \E r \in Slots, ok \in BOOLEAN : ClaimSweepUpdate(r, ok)
  \/ \E r \in Slots, u \in Users, ids \in IdChoices : SweepBudget /\ CancelStart(r, u, ids)
  \/ \E r \in Slots, ok \in BOOLEAN : CancelSweepSend(r, ok)
  \/ \E r \in Slots, ok \in BOOLEAN : CancelSweepUpdate(r, ok)
  \/ \E s \in 1..Len(txs) : Land(s)

SpecSweep == InitLedger /\ [][NextSweep]_vars

SpecZero == InitZero /\ [][NextSweep]_vars

\* the sender's side of the ledger: cancel and the network
NextCancel ==
  \/ \E r \in Slots, u \in Users, ids \in IdChoices : SweepBudget /\ CancelStart(r, u, ids)
  \/ \E r \in Slots, ok \in BOOLEAN : CancelSweepSend(r, ok)
  \/ \E r \in Slots, ok \in BOOLEAN : CancelSweepUpdate(r, ok)
  \/ \E s \in 1..Len(txs) : Land(s)

SpecCancel == InitLedger /\ [][NextCancel]_vars

\* the recipient's side of the ledger: both claimAll routes and the network
NextRedeem ==
  \/ \E r \in Slots, u \in Users : SweepBudget /\ TokenClaimStart(r, u, 1)
  \/ \E r \in Slots, p \in BOOLEAN : TokenClaimGather(r, p)
  \/ \E r \in Slots, u \in Users, ids \in IdChoices : SweepBudget /\ UserClaimStart(r, u, ids)
  \/ \E r \in Slots, ok \in BOOLEAN : ClaimSweepSend(r, ok)
  \/ \E r \in Slots, ok \in BOOLEAN : ClaimSweepUpdate(r, ok)
  \/ \E s \in 1..Len(txs) : Land(s)

SpecRedeem == InitLedger /\ [][NextRedeem]_vars

\* the relay requests and then one sweep
KeyBudget == started <= MaxRelays

\* the signing clients over the ledger: one intent relay next to the session
\* claim route and cancel, and the network
NextKeys ==
  \/ \E r \in Slots, u \in Users, to \in Recipients, a \in ClaimAmountsUi, k \in BOOLEAN :
       IntentPost(r, u, PrivyWallet(u), to, a, k)
  \/ \E r \in Slots : RelayBegin(r)
  \/ \E r \in Slots, ok \in BOOLEAN : RelayAtaSend(r, ok)
  \/ \E r \in Slots : RelayAtaConfirm(r)
  \/ \E r \in Slots, ok \in BOOLEAN : RelayXferSend(r, ok)
  \/ \E r \in Slots : RelayXferConfirm(r)
  \/ \E r \in Slots, u \in Users : KeyBudget /\ UserClaimStart(r, u, {1, 2})
  \/ \E r \in Slots, ok \in BOOLEAN : ClaimSweepSend(r, ok)
  \/ \E r \in Slots, ok \in BOOLEAN : ClaimSweepUpdate(r, ok)
  \/ \E r \in Slots, u \in Users : KeyBudget /\ CancelStart(r, u, {1, 2})
  \/ \E r \in Slots, ok \in BOOLEAN : CancelSweepSend(r, ok)
  \/ \E r \in Slots, ok \in BOOLEAN : CancelSweepUpdate(r, ok)
  \/ \E s \in 1..Len(txs) : Land(s)

SpecKeys == InitLedger /\ [][NextKeys]_vars

\* the clock reaches the second in which the ledger's claims fall due: the
\* first half of them has lapsed, the rest expires later in that second
DueSteps == {TOKEN_TTL_MS - LedgerClaims \div 2}

\* the ledger around its due time: both claimAll routes, the network and the clock
NextDue ==
  \/ \E r \in Slots, u \in Users, t \in {1, LedgerClaims - 1} :
       SweepBudget /\ TokenClaimStart(r, u, t)
  \/ \E r \in Slots, p \in BOOLEAN : TokenClaimGather(r, p)
  \/ \E r \in Slots : ExpireSave(r)
  \/ \E r \in Slots, u \in Users : SweepBudget /\ UserClaimStart(r, u, {})
  \/ \E r \in Slots, ok \in BOOLEAN : ClaimSweepSend(r, ok)
  \/ \E r \in Slots, ok \in BOOLEAN : ClaimSweepUpdate(r, ok)
  \/ \E s \in 1..Len(txs) : Land(s)
  \/ \E d \in DueSteps : Tick(d)

SpecDue == InitLedger /\ [][NextDue]_vars

\* the lapsed ledger: the session claim route, cancel and the network
NextLapsed ==
  \/ \E r \in Slots, u \in Users, ids \in IdChoices : SweepBudget /\ UserClaimStart(r, u, ids)
  \/ \E r \in Slots, u \in Users, ids \in IdChoices : SweepBudget /\ CancelStart(r, u, ids)
  \/ \E r \in Slots, ok \in BOOLEAN : CancelSweepSend(r, ok)
  \/ \E r \in Slots, ok \in BOOLEAN : CancelSweepUpdate(r, ok)
  \/ \E s \in 1..Len(txs) : Land(s)

SpecLapsed == InitLapsed /\ [][NextLapsed]_vars

(* ---- the claim token on its own: sign, time passes, verify ---- *)

TokenClaimIds == {1, 2}
TokenEmails == {"alice@x.com", "bob@x.com"}
TokenClock == {1000, 1500}
TokenExpiries == {500, 1000, 1800, 2000, 2300, 3000}
TokenTicks == {300, 700}

InitToken ==
  /\ now \in TokenClock
  /\ ticks = 0
  /\ users = [u \in Users |-> PrivyWallet(u)]
  /\ claims = <<>>
  /\ bal = [o \in Owners |-> 0]
  /\ ata = {}
  /\ txs = <<>>
  /\ req = [r \in Slots |-> Idle]
  /\ started = 0
  /\ creates = 0
  /\ matched = {}
  /\ mailed = {}

\* signClaimToken({ claimId, recipientEmail, expiresAt })
TokenSign(r, claimId, recipientEmail, expiresAt) ==
  /\ Free(r)
  /\ SettleBudget
  /\ req' = [req EXCEPT ![r] =
       [Begin("token", "signed", "none") EXCEPT
          !.payload = RawToken(claimId, 0, recipientEmail, "", expiresAt, 0),
          !.token = signClaimToken(claimId, recipientEmail, expiresAt)]]
  /\ started' = started + 1
  /\ UNCHANGED <<now, ticks, users, claims, bal, ata, txs, creates, matched, mailed>>

\* token payloads signed with the claim secret that a client may present:
\* the older naming, the current naming, and each with a field left out
PresentedTokens ==
  {RawToken(0, c, "", e, 0, x) :
     c \in {0, 1}, e \in {"", "Bob@X.com"}, x \in {Absent, 3}}
  \cup {RawToken(c, 0, e, "", t, x) :
     c \in {0, 2}, e \in {"", "bob@x.com"}, t \in {0, 2300}, x \in {Absent, 2}}
  \cup {RawToken(2, 1, "alice@x.com", "Bob@X.com", 2300, 2)}

\* a client presents a token payload it holds
TokenPresent(r, raw) ==
  /\ Free(r)
  /\ SettleBudget
  /\ req' = [req EXCEPT ![r] =
       [Begin("presented", "signed", "none") EXCEPT !.payload = raw, !.token = raw]]
  /\ started' = started + 1
  /\ UNCHANGED <<now, ticks, users, claims, bal, ata, txs, creates, matched, mailed>>

\* verifyClaimToken(token) at the current time
TokenVerify(r) ==
  /\ req[r].kind \in {"token", "presented"} /\ req[r].pc = "signed"
  /\ req' = [req EXCEPT ![r] =
       [req[r] EXCEPT !.pc = "done", !.token = verifyClaimToken(req[r].token, now)]]
  /\ UNCHANGED <<now, ticks, users, claims, bal, ata, txs, started, creates, matched, mailed>>

NextToken ==
  \/ \E r \in Slots, c \in TokenClaimIds, e \in TokenEmails, x \in TokenExpiries :
       TokenSign(r, c, e, x)
  \/ \E r \in Slots : TokenVerify(r)
  \/ \E d \in TokenTicks : Tick(d)

SpecToken == InitToken /\ [][NextToken]_vars

\* presented tokens of either naming, verified as time passes
NextLegacy ==
  \/ \E r \in Slots, raw \in PresentedTokens : started < MaxSweeps /\ TokenPresent(r, raw)
  \/ \E r \in Slots : TokenVerify(r)
  \/ \E d \in TokenTicks : Tick(d)

SpecLegacy == InitToken /\ [][NextLegacy]_vars

\* request r is a token claim in flight whose session e-mail is not the
\* recipient of the claim its token names
Mismatched(r) ==
  /\ req[r].kind \in TokenKinds
  /\ req[r].pc \notin {"idle", "done"}
  /\ toLowerCase(EmailOf(req[r].user)) # claims[req[r].tokenId].recipientEmail

\* C16: a token claim request of a session whose e-mail is not the token's
\* recipient ends with EmailMismatch, changes no claim and sends nothing; and
\* every sweep a claim route sends pays each claim to the deposit wallet of the
\* requesting user, whose e-mail is that claim's recipientEmail.
C16_OnlyRecipientRedeems ==
  [][\A r \in Slots :
       /\ (Mismatched(r) /\ req'[r] # req[r])
            => /\ claims' = claims /\ txs' = txs
               /\ req'[r].pc = "done" => req'[r].resp.error = "EmailMismatch"
       /\ (/\ req[r].kind \in SweepKinds /\ req[r].pc \in {"c_send", "s_send"}
           /\ Len(txs') = Len(txs) + 1 /\ txs'[Len(txs')].by = req[r].serial)
            => \A k \in 1..Len(txs'[Len(txs')].ixs) :
                 LET ix == txs'[Len(txs')].ixs[k]
                 IN ix.op = "xfer"
                      => /\ ix.dst = users[req[r].user]
                         /\ toLowerCase(EmailOf(req[r].user)) = claims[ix.claim].recipientEmail]_vars

\* the claims of the sender of cancel request r that its query did not load
NotSelected(r) ==
  {j \in ClaimIds : /\ claims[j].senderUserId = req[r].user
                    /\ j \notin SeqToSet(req[r].pending)}

\* C17: when a cancel request that loaded only part of the sender's claims
\* answers 200, every claim it loaded is canceled and its refund transfer
\* is on the network or has landed; and no step of a cancel request changes
\* a claim it did not load.
C17_CancelSubsetOnly ==
  /\ [](\A r \in Slots :
         (/\ req[r].kind = "cancel" /\ req[r].pc = "done"
          /\ req[r].resp.status = 200 /\ req[r].resp.count > 0
          /\ NotSelected(r) # {})
           => \A i \in SeqToSet(req[r].pending) :
                /\ claims[i].status = "canceled"
                /\ \E k \in 1..Len(req[r].resp.sigs) :
                     LET tx == txs[req[r].resp.sigs[k]]
                     IN /\ tx.state \in {"sent", "ok"}
                        /\ \E n \in 1..Len(tx.ixs) :
                             /\ tx.ixs[n].op = "xfer" /\ tx.ixs[n].claim = i
                             /\ tx.ixs[n].dst = claims[i].senderFromOwner
                             /\ tx.ixs[n].amt = claims[i].amountUnits)
  /\ [][\A r \in Slots :
         (req[r].kind = "cancel" /\ req[r].pc \notin {"idle", "done"} /\ req'[r] # req[r])
           => \A j \in ClaimIds \ SeqToSet(req[r].pending) : claims'[j] = claims[j]]_vars

\* C18: a posted transaction whose fee payer is not the sponsor is answered
\* with InvalidFeePayer at once; the request never reaches the sponsor's
\* signer and none of its transactions is ever on the network.
C18_ForeignFeePayerRejected ==
  /\ [][\A r \in Slots :
         (/\ req[r].kind = "relayA" /\ req[r].pc = "a_begin"
          /\ req[r].tx.payer # HAVEN_PUBKEY /\ req'[r] # req[r])
           => /\ req'[r].pc = "done"
              /\ req'[r].resp.error = "InvalidFeePayer"
              /\ txs' = txs]_vars
  /\ [](\A r \in Slots :
         (req[r].kind = "relayA" /\ req[r].resp.error = "InvalidFeePayer")
           => /\ req[r].io \cap {"signer", "broadcast"} = {}
              /\ \A s \in 1..Len(txs) : txs[s].by # req[r].serial)
  /\ [](\A s \in 1..Len(txs) : txs[s].payer = HAVEN_PUBKEY)

C18_Witness ==
  \E r \in Slots :
     /\ req[r].kind = "relayA" /\ req[r].pc = "done"
     /\ req[r].resp.status = 403 /\ req[r].resp.error = "InvalidFeePayer"

\* C19: an intent whose fromOwner is neither the deposit nor the savings
\* wallet of the caller is answered with UnrecognizedSource at once: no
\* instruction is built, no signer is called and no transaction of the
\* request is ever on the network.
C19_ForeignSourceRejected ==
  /\ [][\A r \in Slots :
         (/\ req[r].kind = "relayB" /\ req[r].pc = "relay_begin"
          /\ req[r].fromOwner \notin ({users[req[r].user], SavingsWallet(req[r].user)} \ {NoWallet})
          /\ req'[r] # req[r])
           => /\ req'[r].pc = "done"
              /\ req'[r].resp.error = "UnrecognizedSource"
              /\ txs' = txs]_vars
  /\ [](\A r \in Slots :
         (req[r].kind = "relayB" /\ req[r].resp.error = "UnrecognizedSource")
           => /\ req[r].built = 0
              /\ req[r].io \cap {"signer", "broadcast"} = {}
              /\ \A s \in 1..Len(txs) : txs[s].by # req[r].serial)
  /\ [](\A r \in Slots :
         (req[r].kind = "relayB" /\ req[r].pc \notin {"idle", "done", "relay_begin"})
           => req[r].fromOwner \in {users[req[r].user], SavingsWallet(req[r].user)} \ {NoWallet})

C19_Witness ==
  \E r \in Slots :
     /\ req[r].kind = "relayB" /\ req[r].pc = "done"
     /\ req[r].resp.status = 400 /\ req[r].resp.error = "UnrecognizedSource"

\* the transfer instructions of the peer transfers built for request r, in
\* hand or already sent
PeerTransfersOf(r) ==
  LET built == {req[r].tx.ixs} \cup {txs[s].ixs : s \in {k \in 1..Len(txs) : txs[k].by = req[r].serial}}
  IN {SelectSeq(ixs, LAMBDA ix : ix.op = "xfer") :
        ixs \in {b \in built : \E n \in 1..Len(b) : b[n].op = "xfer"}}

\* C20: every peer transfer built for an accepted amount pays the recipient
\* a net amount and the treasury a fee with net + fee equal to the total in
\* minor units, the fee being 20000 and the net greater than zero.
C20_NetPlusFeeIsTotal ==
  \A r \in Slots :
     (req[r].kind \in {"relayA", "relayB"} /\ req[r].amountUi > FEE_UI)
       => \A xf \in PeerTransfersOf(r) :
            /\ Len(xf) = 2
            /\ xf[1].dst # TREASURY_OWNER /\ xf[2].dst = TREASURY_OWNER
            /\ xf[1].amt + xf[2].amt = toUnits(req[r].amountUi)
            /\ xf[2].amt = 20000
            /\ xf[1].amt > 0

\* the transfer instructions of transaction tx
TransfersOf(tx) == SelectSeq(tx.ixs, LAMBDA ix : ix.op = "xfer")

\* C21: when the sweep transaction of a claimAll request lands, it carries
\* one transfer per claim, each of that claim's amountUnits from escrow to
\* the requesting recipient's wallet; escrow goes down and the recipient goes
\* up by exactly the sum, and the treasury receives nothing.
C21_ClaimLegMovesAmountUnits ==
  [][\A s \in 1..Len(txs), r \in Slots :
       (/\ req[r].kind \in ClaimKinds /\ req[r].serial = txs[s].by
        /\ txs[s].state = "sent" /\ txs'[s].state = "ok")
         => LET xf == TransfersOf(txs[s])
                to == users[req[r].user]
                sum == SumSeq([k \in 1..Len(xf) |-> claims[xf[k].claim].amountUnits])
            IN /\ \A k \in 1..Len(xf) :
                    /\ xf[k].src = ESCROW_PUBKEY /\ xf[k].dst = to
                    /\ xf[k].amt = claims[xf[k].claim].amountUnits
                    /\ \A n \in 1..Len(xf) : xf[n].claim = xf[k].claim => n = k
               /\ bal'[ESCROW_PUBKEY] = bal[ESCROW_PUBKEY] - sum
               /\ bal'[to] = bal[to] + sum
               /\ bal'[TREASURY_OWNER] = bal[TREASURY_OWNER]]_vars

C21_Witness ==
  \E s \in 1..Len(txs), r \in Slots :
     /\ req[r].kind \in ClaimKinds /\ req[r].serial = txs[s].by
     /\ txs[s].state = "ok" /\ Len(TransfersOf(txs[s])) = 2
     /\ \A i \in {1, 2} : claims[i].status = "claimed"
     /\ bal[users[req[r].user]] = InitBal + claims[1].amountUnits + claims[2].amountUnits

\* the claims whose status a batch update of request r has written
RecordedBy(r) == {i \in ClaimIds : <<req[r].serial, i>> \in matched}

\* the transactions that request r has broadcast
TxsIn(log, serial) == {s \in 1..Len(log) : log[s].by = serial}

BroadcastBy(r) == TxsIn(txs, req[r].serial)

\* C22: a claimAll or cancel sweep that ends in an error after some of its
\* batches were broadcast and recorded still reports the number of claims it
\* settled and the signatures it obtained.
C22_PartialSweepReported ==
  \A r \in Slots :
     (/\ req[r].kind \in ClaimKinds \cup {"cancel"} /\ req[r].pc = "done"
      /\ req[r].resp.status # 200 /\ RecordedBy(r) # {})
       => /\ req[r].resp.count = Cardinality(RecordedBy(r))
          /\ SeqToSet(req[r].resp.sigs) = BroadcastBy(r)

\* C23: verifying a freshly signed token whose expiresAt is later than the
\* time of verification returns the claimId, recipientEmail and expiresAt
\* that were signed, and verifying one whose expiresAt is earlier returns the
\* rejection.
C23_TokenRoundTrip ==
  [][\A r \in Slots :
       (req[r].kind = "token" /\ req[r].pc = "signed" /\ req'[r].pc = "done")
         => LET in == req[r].payload
                out == req'[r].token
            IN /\ in.expiresAt > now
                    => /\ out.claimId = in.claimId
                       /\ out.recipientEmail = in.recipientEmail
                       /\ out.expiresAt = in.expiresAt
               /\ in.expiresAt < now => out = NoToken]_vars

BatchKinds == {"tokenClaim", "userClaim", "cancel"}

\* the claims of the batches of request r before batch number idx
EarlierBatches(r) ==
  {req[r].pending[k] : k \in 1..Min(req[r].idx * MAX_PER_TX, Len(req[r].pending))}

\* C24: a sweep broadcasts a batch only from its send step, as many batches
\* before it as the batch's number, each already through its status update
\* (none of their claims is pending any more); the batch carries exactly its
\* own chunk; and a sweep that has answered, with an error or not, broadcasts
\* nothing more.
C24_BatchesStrictlySequential ==
  [][\A r \in Slots :
       req[r].kind \in BatchKinds
         => /\ TxsIn(txs', req[r].serial) # BroadcastBy(r)
                 => /\ req[r].pc \in {"c_send", "x_send"}
                    /\ Cardinality(BroadcastBy(r)) = req[r].idx
                    /\ Cardinality(TxsIn(txs', req[r].serial)) = req[r].idx + 1
                    /\ \A i \in EarlierBatches(r) : claims[i].status # "pending"
                    /\ LET xf == TransfersOf(txs'[Len(txs')])
                       IN [k \in 1..Len(xf) |-> xf[k].claim] = Chunk(req[r].pending, req[r].idx)
            /\ (req[r].pc = "done" /\ req'[r] = req[r]) => TxsIn(txs', req[r].serial) = BroadcastBy(r)
            /\ (req[r].pc \in {"c_send", "x_send", "c_update", "x_update"}
                  /\ req'[r].pc = "done" /\ req'[r].resp.status # 200)
                 => /\ req[r].pc \in {"c_send", "x_send"} => txs' = txs
                    /\ claims' = claims]_vars

C24_Witness ==
  \E r \in Slots :
     /\ req[r].kind \in BatchKinds /\ req[r].pc = "done" /\ req[r].resp.status = 200
     /\ Cardinality(BroadcastBy(r)) = 2
     /\ Len(req[r].pending) > MAX_PER_TX

\* the claims for which request r has broadcast a transfer
SweptBy(r) ==
  UNION {{txs[s].ixs[k].claim : k \in 1..Len(txs[s].ixs)} : s \in BroadcastBy(r)} \ {0}

\* C25: the claims a sweep gathered are in ascending createdAt order, the
\* claims it has swept and recorded so far are the first ones of that order,
\* and no swept claim is younger than a gathered claim it has not swept.
C25_OldestFirstPrefix ==
  \A r \in Slots :
     req[r].kind \in BatchKinds
       => LET pending == req[r].pending
          IN /\ \A k, l \in 1..Len(pending) :
                  k < l => claims[pending[k]].createdAt <= claims[pending[l]].createdAt
             /\ \A k, l \in 1..Len(pending) :
                  (k < l /\ pending[l] \in SweptBy(r)) => pending[k] \in SweptBy(r)
             /\ RecordedBy(r) \subseteq SweptBy(r)
             /\ SweptBy(r) \subseteq SeqToSet(pending)
             /\ \A i \in SweptBy(r), j \in SeqToSet(pending) \ SweptBy(r) :
                  claims[i].createdAt < claims[j].createdAt

C25_Witness ==
  \E r \in Slots :
     /\ req[r].kind \in BatchKinds /\ req[r].pc = "done" /\ req[r].resp.status # 200
     /\ Len(req[r].pending) > MAX_PER_TX
     /\ SweptBy(r) = {req[r].pending[k] : k \in 1..MAX_PER_TX}
     /\ RecordedBy(r) = SweptBy(r)

\* the transactions of request r in the order it sent them
SentBy(r) == SelectSeq(txs, LAMBDA tx : tx.by = req[r].serial)

\* C26: n gathered claims make ceil(n / 8) chunks of at most 8 claims; the
\* chunks laid end to end are the gathered list (every claim once, order
\* kept); the k-th transaction of a sweep carries transfers for exactly the
\* claims of its k-th chunk, and a sweep that answers 200 sent one
\* transaction per chunk.
C26_ChunksOfEight ==
  \A r \in Slots :
     (req[r].kind \in BatchKinds /\ req[r].pending # <<>>)
       => LET pending == req[r].pending
              n == Len(pending)
              m == NumChunks(pending)
              sent == SentBy(r)
          IN /\ MAX_PER_TX * (m - 1) < n /\ n <= MAX_PER_TX * m
             /\ \A c \in 0..(m - 1) :
                  /\ Len(Chunk(pending, c)) \in 1..MAX_PER_TX
                  /\ \A k \in 1..Len(Chunk(pending, c)) :
                       Chunk(pending, c)[k] = pending[MAX_PER_TX * c + k]
             /\ SumSeq([c \in 1..m |-> Len(Chunk(pending, c - 1))]) = n
             /\ Len(sent) <= m
             /\ \A c \in 1..Len(sent) :
                  LET xf == TransfersOf(sent[c])
                  IN /\ Len(xf) <= MAX_PER_TX
                     /\ [k \in 1..Len(xf) |-> xf[k].claim] = Chunk(pending, c - 1)
             /\ (req[r].pc = "done" /\ req[r].resp.status = 200) => Len(sent) = m

C26_Witness ==
  \E r \in Slots :
     /\ req[r].kind \in BatchKinds /\ req[r].pc = "done" /\ req[r].resp.status = 200
     /\ Len(req[r].pending) = MAX_PER_TX + 1
     /\ Len(SentBy(r)) = 2
     /\ Len(TransfersOf(SentBy(r)[1])) = MAX_PER_TX
     /\ Len(TransfersOf(SentBy(r)[2])) = 1

SentByUser(u) == {i \in ClaimIds : claims[i].senderUserId = u}

\* C29: a cancel request loads, refunds and writes only claims its caller
\* sent; it loads all of the caller's pending claims when no ids are posted
\* and those among the posted ids otherwise; and no step of it changes a
\* claim of another sender.
C29_CancelOnlyOwnClaims ==
  /\ [](\A r \in Slots :
         req[r].kind = "cancel"
           => /\ SeqToSet(req[r].pending) \subseteq SentByUser(req[r].user)
              /\ SweptBy(r) \subseteq SentByUser(req[r].user)
              /\ RecordedBy(r) \subseteq SentByUser(req[r].user))
  /\ [][\A r \in Slots :
         /\ (req'[r].kind = "cancel" /\ req'[r].serial # req[r].serial)
              => LET own == {i \in SentByUser(req'[r].user) : claims[i].status = "pending"}
                 IN SeqToSet(req'[r].pending) =
                      IF req'[r].ids = {} THEN own ELSE own \cap req'[r].ids
         /\ (req[r].kind = "cancel" /\ req[r].pc \notin {"idle", "done"} /\ req'[r] # req[r])
              => \A j \in ClaimIds \ SentByUser(req[r].user) : claims'[j] = claims[j]]_vars

C29_Witness ==
  \E r \in Slots :
     /\ req[r].kind = "cancel" /\ req[r].pc = "done" /\ req[r].resp.status = 200
     /\ req[r].user = "alice" /\ req[r].ids = {2, LedgerClaims}
     /\ claims[2].status = "canceled"
     /\ claims[LedgerClaims].status = "pending"
     /\ SweptBy(r) = {2}

\* C30: a cancel request loads the caller's pending claims whose
\* tokenExpiresAt has passed like any other; when it answers 200 those claims
\* are canceled and their refund transfer is on the network or has landed;
\* and no claim route gathers such a claim.
C30_ExpiredPendingCancellable ==
  /\ [][\A r \in Slots :
         /\ (req'[r].kind = "cancel" /\ req'[r].serial # req[r].serial)
              => \A i \in SentByUser(req'[r].user) :
                   (/\ claims[i].status = "pending" /\ claims[i].tokenExpiresAt < now
                    /\ (req'[r].ids = {} \/ i \in req'[r].ids))
                     => i \in SeqToSet(req'[r].pending)
         /\ (/\ req'[r].kind \in SweepKinds
             /\ req'[r].pc \in {"c_send", "s_send"}
             /\ req[r].pc \in {"idle", "done", "t_connect", "s_connect"})
              => \A k \in 1..Len(req'[r].pending) :
                   ~(claims[req'[r].pending[k]].tokenExpiresAt < now)]_vars
  /\ [](\A r \in Slots :
         (req[r].kind = "cancel" /\ req[r].pc = "done" /\ req[r].resp.status = 200)
           => \A i \in SeqToSet(req[r].pending) :
                claims[i].tokenExpiresAt < now
                  => /\ claims[i].status = "canceled"
                     /\ \E s \in BroadcastBy(r) :
                          /\ txs[s].state \in {"sent", "ok"}
                          /\ \E n \in 1..Len(txs[s].ixs) :
                               /\ txs[s].ixs[n].op = "xfer" /\ txs[s].ixs[n].claim = i
                               /\ txs[s].ixs[n].dst = claims[i].senderFromOwner
                               /\ txs[s].ixs[n].amt = claims[i].amountUnits)

\* the sum of amountUnits of the claims of S sent from owner o
RECURSIVE OwnerSum(_, _)
OwnerSum(S, o) ==
  IF S = {} THEN 0
  ELSE LET i == CHOOSE j \in S : TRUE
       IN (IF claims[i].senderFromOwner = o THEN claims[i].amountUnits ELSE 0)
          + OwnerSum(S \ {i}, o)

EligibleFor(email) ==
  {i \in ClaimIds : /\ claims[i].recipientEmail = email
                    /\ claims[i].status = "pending"
                    /\ claims[i].tokenExpiresAt > now}

\* C32: a token claimAll gathers every pending, non-expired claim addressed
\* to the token's recipientEmail, whatever claim the token names; and once
\* it has answered 200, none of the claims it gathered is still pending.
C32_TokenSweepsWholeEmail ==
  /\ [][\A r \in Slots :
          (/\ req[r].kind = "tokenClaim" /\ req[r].pc = "t_connect"
           /\ req'[r].kind = "tokenClaim" /\ req'[r].serial = req[r].serial
           /\ (req'[r].pc = "c_send" \/ (req'[r].pc = "done" /\ req'[r].resp.status = 200)))
            => SeqToSet(req'[r].pending) = EligibleFor(toLowerCase(req[r].token.recipientEmail))]_vars
  /\ [](\A r \in Slots :
          (req[r].kind = "tokenClaim" /\ req[r].pc = "done" /\ req[r].resp.status = 200)
            => \A i \in SeqToSet(req[r].pending) : claims[i].status # "pending")

C32_Witness ==
  \E r \in Slots :
     /\ req[r].kind = "tokenClaim" /\ req[r].pc = "done" /\ req[r].resp.status = 200
     /\ req[r].tokenId = 1
     /\ Len(req[r].pending) > MAX_PER_TX
     /\ \A i \in SeqToSet(req[r].pending) : i \in RecordedBy(r) /\ claims[i].status = "claimed"

\* every claim addressed to user u exists and is already claimed
AllClaimedFor(u) ==
  LET mine == {i \in ClaimIds : claims[i].recipientEmail = toLowerCase(EmailOf(u))}
  IN mine # {} /\ \A i \in mine : claims[i].status = "claimed"

\* every claim user u sent, among ids when given, exists and is already canceled
AllCanceledFor(u, ids) ==
  LET mine == {i \in SentByUser(u) : ids # {} => i \in ids}
  IN mine # {} /\ \A i \in mine : claims[i].status = "canceled"

\* request r ends in this step with a success that did nothing
NoOpSuccess(r) ==
  /\ req'[r].pc = "done"
  /\ req'[r].resp.status = 200 /\ req'[r].resp.count = 0
  /\ claims' = claims /\ txs' = txs /\ bal' = bal

\* request r starts in this step, as flow kind by user u
StartsAs(r, kinds) ==
  /\ req'[r].serial # req[r].serial
  /\ req'[r].kind \in kinds

\* a session claim or cancel that starts once its claims are terminal, and the
\* look-up step of a token claim that runs once its claims are claimed
RepeatedSession(r) ==
  \/ StartsAs(r, {"userClaim"}) /\ AllClaimedFor(req'[r].user)
  \/ StartsAs(r, {"cancel"}) /\ AllCanceledFor(req'[r].user, req'[r].ids)

RepeatedTokenLookup(r) ==
  /\ req[r].kind \in {"tokenClaim", "singleClaim"}
  /\ req[r].pc \in {"t_connect", "s_connect"}
  /\ req'[r] # req[r]
  /\ AllClaimedFor(req[r].user)

RECURSIVE DeltaOf(_, _)
DeltaOf(xf, o) ==
  IF xf = <<>> THEN 0
  ELSE (IF Head(xf).dst = o THEN Head(xf).amt ELSE 0)
       - (IF Head(xf).src = o THEN Head(xf).amt ELSE 0)
       + DeltaOf(Tail(xf), o)

\* what the confirmed transactions 1..n of the log add to the balance of o
RECURSIVE Credited(_, _)
Credited(n, o) ==
  IF n = 0 THEN 0
  ELSE (IF txs[n].state = "ok" THEN DeltaOf(TransfersOf(txs[n]), o) ELSE 0)
       + Credited(n - 1, o)

\* the transactions that carry the peer transfer of relay request r
PeerTxsOf(r) ==
  {s \in BroadcastBy(r) : /\ req[r].kind \in {"relayA", "relayB"}
                          /\ req[r].amountUi > FEE_UI
                          /\ TransfersOf(txs[s]) # <<>>}

\* C34: the transaction of a peer transfer carries both legs, net to the
\* destination and fee to the treasury, out of the one source and adding up
\* to the total; when it lands either every balance moves by both legs or
\* none moves; and every balance is its initial value plus the legs of the
\* confirmed transactions, so no state holds a fee without its net amount
\* or a net amount without its fee.
C34_FeeAndNetTogether ==
  /\ [](\A r \in Slots : \A s \in PeerTxsOf(r) :
          LET xf == TransfersOf(txs[s])
          IN /\ Len(xf) = 2
             /\ xf[1].src = xf[2].src /\ xf[2].dst = TREASURY_OWNER
             /\ req[r].pc # "done" =>
                  xf[1].src = req[r].fromOwner /\ xf[1].dst = req[r].toOwner
             /\ xf[2].amt = toUnits(FEE_UI)
             /\ xf[1].amt + xf[2].amt = toUnits(req[r].amountUi))
  /\ [](\A o \in Owners \ {ESCROW_PUBKEY} :
          bal[o] = (IF o = "A" THEN InitBal ELSE 0) + Credited(Len(txs), o))
  /\ [][\A r \in Slots : \A s \in PeerTxsOf(r) :
          (txs[s].state = "sent" /\ txs'[s].state # "sent")
            => IF txs'[s].state = "ok"
               THEN \A o \in Owners : bal'[o] = bal[o] + DeltaOf(TransfersOf(txs[s]), o)
               ELSE bal' = bal]_vars

C34_Witness ==
  \E r \in Slots : \E s \in PeerTxsOf(r) :
     /\ req[r].kind = "relayB" /\ txs[s].state = "ok"
     /\ req[r].amountUi = 300000
     /\ bal[req[r].fromOwner] = InitBal - 30000
     /\ bal[req[r].toOwner] = 10000
     /\ bal[TREASURY_OWNER] = 20000

\* request r is a claim route about to build or send its sweep
Sweeping(r) ==
  req[r].kind \in SweepKinds /\ req[r].pc \in {"c_send", "c_update", "s_send", "s_save"}

\* C35: a claim route builds and broadcasts escrow transfers only to the
\* deposit wallet stored for its caller, which exists by then; the token
\* claim route stores the wallet in the step that gathers the claims; and a
\* claim request that ends while its caller still has no wallet ends in an
\* error, with no transaction sent, no balance moved and no claim changed
\* (the write of the expired-token branch, which runs before the wallet is
\* looked at, is not a step of the sweep and is left aside).
C35_NoSweepWithoutWallet ==
  /\ [](\A r \in Slots :
          /\ Sweeping(r) =>
                req[r].toOwner # NoWallet /\ req[r].toOwner = users[req[r].user]
          /\ req[r].kind \in SweepKinds =>
                \A s \in BroadcastBy(r) : \A n \in 1..Len(txs[s].ixs) :
                   txs[s].ixs[n].op = "xfer" =>
                     /\ txs[s].ixs[n].dst # NoWallet
                     /\ txs[s].ixs[n].dst = users[req[r].user])
  /\ [][\A r \in Slots :
          (/\ req'[r].kind \in SweepKinds /\ req'[r] # req[r]
           /\ req[r].pc # "expire_save"
           /\ users'[req'[r].user] = NoWallet)
            => /\ claims' = claims /\ txs' = txs /\ bal' = bal
               /\ req'[r].pc \in {"t_connect", "s_connect", "expire_save"}
                    \/ (req'[r].pc = "done" /\ req'[r].resp.status >= 400)]_vars

C35_Witness ==
  \E r, q \in Slots :
     /\ req[q].kind = "tokenClaim" /\ req[q].pc = "done"
     /\ req[q].resp.error = "WalletProvisioning"
     /\ req[r].kind = "tokenClaim" /\ req[r].pc = "done" /\ req[r].resp.status = 200
     /\ req[r].user = "bob" /\ users["bob"] = PrivyWallet("bob")
     /\ \E s \in BroadcastBy(r) : txs[s].state = "ok"
     /\ claims[1].status = "claimed"

\* C36: a transaction is signed under the application key unless it is the
\* user-signed transfer of the relay request that installed a user key for
\* itself: no transaction of one request is signed under a key installed by
\* another, and every transaction signed by the sponsor or escrow wallet
\* alone is signed under the application key.
C36_UserKeyStaysInItsRequest ==
  \A s \in 1..Len(txs) :
     /\ txs[s].key \in {0, txs[s].by}
     /\ txs[s].signed = {HAVEN_PUBKEY} => txs[s].key = 0

C36_Witness ==
  \E q, r \in Slots :
     /\ Switched(q) /\ req[q].kind = "relayB"
     /\ req[r].kind \in {"userClaim", "cancel"} /\ req[r].serial > req[q].serial
     /\ \E s \in BroadcastBy(r) : txs[s].signed = {HAVEN_PUBKEY} /\ txs[s].key = 0
     /\ \E s \in BroadcastBy(q) : txs[s].key = 0

\* the payload carries a claim id, an e-mail, an expiry under either naming
HasClaimId(raw) == raw.claimId # 0 \/ raw.cid # 0
HasEmail(raw) == raw.recipientEmail # "" \/ raw.eml # ""
HasExpiry(raw) == raw.expiresAt # 0 \/ raw.exp # Absent

\* C37: verifying a presented token that has not expired and carries a claim
\* id, an e-mail and an expiry, each under the current or the older name,
\* returns them under the current names, the current name taking precedence,
\* with the e-mail lowercased and the expiry taken from exp when expiresAt is
\* missing; a token that lacks any of the three is rejected.
C37_EitherNamingNormalized ==
  [][\A r \in Slots :
       (req[r].kind = "presented" /\ req[r].pc = "signed" /\ req'[r].pc = "done")
         => LET in == req[r].token
                out == req'[r].token
                live == in.exp = Absent \/ now \div MS_PER_SEC < in.exp
            IN /\ (live /\ HasClaimId(in) /\ HasEmail(in) /\ HasExpiry(in))
                    => /\ out # NoToken
                       /\ out.claimId \in {in.claimId, in.cid} \ {0}
                       /\ in.claimId # 0 => out.claimId = in.claimId
                       /\ out.recipientEmail \in
                            {toLowerCase(in.recipientEmail), toLowerCase(in.eml)} \ {""}
                       /\ in.recipientEmail # ""
                            => out.recipientEmail = toLowerCase(in.recipientEmail)
                       /\ out.expiresAt =
                            (IF in.expiresAt # 0 THEN in.expiresAt ELSE in.exp * MS_PER_SEC)
                       /\ out.cid = 0 /\ out.eml = ""
               /\ ~(HasClaimId(in) /\ HasEmail(in) /\ HasExpiry(in))
                    => out = NoToken]_vars

C37_Witness ==
  \E r \in Slots :
     /\ req[r].kind = "presented" /\ req[r].pc = "done"
     /\ req[r].payload = RawToken(0, 1, "", "Bob@X.com", 0, 3)
     /\ req[r].token = RawToken(1, 0, "bob@x.com", "", 3000, 3)

\* C38: the token signed by a create request names the row it has just
\* written: its claimId is the row's tokenId, its recipientEmail the row's
\* lowercased recipientEmail, its expiresAt the row's tokenExpiresAt; and at
\* any time the e-mailed token of a claim is rejected by verification exactly
\* when the claim's tokenExpiresAt is no longer in the future.
C38_TokenBoundToClaim ==
  /\ \A r \in Slots :
        (req[r].kind = "create" /\ req[r].pc = "email")
          => LET t == req[r].token
             IN /\ t.claimId \in ClaimIds
                /\ t.claimId = claims[t.claimId].tokenId
                /\ t.recipientEmail = toLowerCase(claims[t.claimId].recipientEmail)
                /\ t.expiresAt = claims[t.claimId].tokenExpiresAt
                /\ t = EmailedToken(t.claimId)
  /\ \A i \in mailed :
        (verifyClaimToken(EmailedToken(i), now) = NoToken)
          <=> ~(claims[i].tokenExpiresAt > now)

====
